---- MODULE Spec2Model ----
(***************************************************************************)
(* Reflection-driven object-graph serialization of geEngine (geUtility):   *)
(* BinarySerializer (encode / two-phase decode), BinaryCloner,             *)
(* SerializedObject (intermediate tree) and BinaryDiff (generate / apply). *)
(*                                                                         *)
(* The stream is a sequence of bytes.  Objects live in a heap (a sequence; *)
(* an address is an index, 0 is nullptr).  Embedded Reflectable fields are *)
(* held by value.  A Plain value is the byte image its field writes.       *)
(***************************************************************************)
EXTENDS Integers, Sequences, FiniteSets, TLC

(***************************************************************************)
(* Bounds of the model.                                                    *)
(***************************************************************************)
NumObjs == 2
MaxEdits == 2
MaxArr == 1
MaxByte == 1
BufferLength == 64
TinyBuffer == 2
SmallBuffer == 8
BufferLengths == {12, 44, 48}
MaxWire == 4
\* calls of _registerRTTIType while the program starts, and the classes
\* that may claim one type id
MaxRegistrations == 3
NumNames == 2
\* the MinHeap: capacity, keys, values and accepted inserts of one caller
MaxElements == 4
MaxKey == 2
MaxValue == 2
MaxInserts == 4
\* Bitfield: sizes the field is created with, and calls made on it
MaxBitOps == 3

(***************************************************************************)
(* Program constants.                                                      *)
(***************************************************************************)
META_SIZE == 4
NUM_ELEM_FIELD_SIZE == 4
COMPLEX_TYPE_FIELD_SIZE == 4
DATA_BLOCK_TYPE_FIELD_SIZE == 4
OBJECT_META_SIZE == 8

Objs == 1..NumObjs
Bytes == 0..MaxByte

(***************************************************************************)
(* Reflection metadata: the RTTI types of the host program.                *)
(*   Node (10) : NodeBase (11)      Inner (20)                             *)
(***************************************************************************)
TID_Node == 10
TID_NodeBase == 11
TID_Inner == 20
\* a type id that no class of the running program registers
TID_Unknown == 99
\* TYPEID_UTILITY::kID_Abstract, the id abstract classes share; the
\* registry only compares it with the ids handed in
kID_Abstract == 50

\* Bitfield::BITS_PER_DWORD
BITS_PER_DWORD == 32
\* a field id that no class of the running program has
UnknownField == 9
\* an object id that no record of the stream carries
MissingId == 7

kPlain == "kPlain"
kDataBlock == "kDataBlock"
kReflectable == "kReflectable"
kReflectablePtr == "kReflectablePtr"

RTTIField(id, type, isVectorType, dyn, size, weak, rtype) ==
  [m_uniqueId |-> id, m_type |-> type, m_isVectorType |-> isVectorType,
   hasDynamicSize |-> dyn, typeSize |-> size, kWeakRef |-> weak, rtype |-> rtype]

\* getField(i) / getNumFields(): the ordered fields a type declares
Fields(tid) ==
  CASE tid = TID_Node ->
         << RTTIField(0, kPlain, FALSE, FALSE, 1, FALSE, 0),                 \* val
            RTTIField(1, kReflectablePtr, FALSE, FALSE, 0, FALSE, TID_Node), \* ref
            RTTIField(2, kReflectablePtr, FALSE, FALSE, 0, TRUE, TID_Node),  \* next (weak)
            RTTIField(3, kReflectablePtr, TRUE, FALSE, 0, FALSE, TID_Node),  \* refs[]
            RTTIField(4, kReflectable, FALSE, FALSE, 0, FALSE, TID_Inner) >> \* inner
    [] tid = TID_NodeBase ->
         << RTTIField(0, kDataBlock, FALSE, FALSE, 0, FALSE, 0),             \* blob
            RTTIField(1, kPlain, FALSE, TRUE, 0, FALSE, 0),                  \* name
            RTTIField(2, kPlain, TRUE, FALSE, 1, FALSE, 0),                  \* tags[]
            RTTIField(3, kReflectable, TRUE, FALSE, 0, FALSE, TID_Inner) >>  \* inners[]
    [] tid = TID_Inner ->
         << RTTIField(0, kPlain, FALSE, FALSE, 1, FALSE, 0),                 \* x
            RTTIField(1, kReflectablePtr, FALSE, FALSE, 0, FALSE, TID_Node) >> \* p
    [] OTHER -> << >>

\* getBaseClass(): 0 stands for nullptr
getBaseClass(tid) == IF tid = TID_Node THEN TID_NodeBase ELSE 0

\* a type descriptor, as far as the registry looks at it: getRTTIId() and
\* getRTTIName()
RTTIType(id, name) == [id |-> id, name |-> name]

\* the global registry filled by _registerRTTIType
AllRTTITypes == {TID_Node, TID_NodeBase, TID_Inner}

\* IReflectable::_getRTTIfromTypeId: 0 stands for nullptr
getRTTIfromTypeId(tid) == IF tid \in AllRTTITypes THEN tid ELSE 0

\* RTTITypeBase::findField(uniqueFieldId): << >> stands for nullptr
findField(tid, id) ==
  LET hits == {i \in 1..Len(Fields(tid)) : Fields(tid)[i].m_uniqueId = id}
  IN IF hits = {} THEN << >> ELSE << Fields(tid)[CHOOSE i \in hits : TRUE] >>

RECURSIVE Chain(_)
\* the inheritance chain walked by getBaseClass(), most derived first
Chain(tid) == IF tid = 0 THEN << >> ELSE << tid >> \o Chain(getBaseClass(tid))

Keys(tid) ==
  UNION { { << Chain(tid)[l], Fields(Chain(tid)[l])[i].m_uniqueId >> :
              i \in 1..Len(Fields(Chain(tid)[l])) } : l \in 1..Len(Chain(tid)) }

FieldOfKey(k) == findField(k[1], k[2])[1]

RECURSIVE newRTTIObject(_)
\* the factory: a default-constructed instance of the type
newRTTIObject(tid) ==
  [typeId |-> tid,
   f |-> [k \in Keys(tid) |->
            LET fd == FieldOfKey(k)
            IN IF fd.m_isVectorType THEN << >>
               ELSE CASE fd.m_type = kPlain ->
                           IF fd.hasDynamicSize THEN << >>
                           ELSE [i \in 1..fd.typeSize |-> 0]
                      [] fd.m_type = kDataBlock -> << >>
                      [] fd.m_type = kReflectablePtr -> 0
                      [] fd.m_type = kReflectable -> newRTTIObject(fd.rtype)]]

(***************************************************************************)
(* Byte helpers (host-endian 32-bit words).                                *)
(***************************************************************************)
U32(n) == << n % 256, (n \div 256) % 256, (n \div 65536) % 256,
             (n \div 16777216) % 256 >>

\* DataStream::read of a 32-bit word at byte offset pos (0-based)
RdU32(s, pos) == s[pos + 1] + 256 * s[pos + 2] + 65536 * s[pos + 3]
                 + 16777216 * s[pos + 4]

\* RTTIPlainField::toBuffer: a dynamic-size value carries its total size first
toBuffer(fd, v) == IF fd.hasDynamicSize THEN U32(4 + Len(v)) \o v ELSE v

\* RTTIPlainField::getDynamicSize / getTypeSize
plainSize(fd, v) == IF fd.hasDynamicSize THEN 4 + Len(v) ELSE fd.typeSize

\* fromBuffer that takes the size prefix of a dynamic value for data
fromBuffer_keepsPrefix(fd, b) == b

\* RTTIPlainField::fromBuffer
fromBuffer(fd, b) == IF fd.hasDynamicSize THEN SubSeq(b, 5, Len(b)) ELSE b

(***************************************************************************)
(* Metadata words.  A 32-bit word is held as its four bytes, low byte      *)
(* first, so that the shifts keep their 32-bit width.                      *)
(***************************************************************************)
\* bytes at offset pos .. pos + 3 (0-based) of the stream
Word(s, pos) == << s[pos + 1], s[pos + 2], s[pos + 3], s[pos + 4] >>

Bit(b, m) == (b \div m) % 2 = 1

\* IIII IIII IIII IIII SSSS SSSS xTYP DCAO
encodeFieldMetaData(id, size, array, type, hasDynamicSize, terminator) ==
  << (IF array THEN 2 ELSE 0)
     + (IF type = kDataBlock THEN 4 ELSE 0)
     + (IF type = kReflectable THEN 8 ELSE 0)
     + (IF type = kReflectablePtr THEN 16 ELSE 0)
     + (IF hasDynamicSize THEN 32 ELSE 0)
     + (IF terminator THEN 64 ELSE 0),
     size % 256,
     id % 256,
     (id \div 256) % 256 >>

isObjectMetaData(w) == Bit(w[1], 1)

\* a decode that reads the id from one byte of the word
decodeFieldMetaData_byteId(w) ==
  [id |-> w[3],
   size |-> w[2],
   array |-> Bit(w[1], 2),
   type |-> IF Bit(w[1], 16) THEN kReflectablePtr
            ELSE IF Bit(w[1], 8) THEN kReflectable
            ELSE IF Bit(w[1], 4) THEN kDataBlock
            ELSE kPlain,
   hasDynamicSize |-> Bit(w[1], 32),
   terminator |-> Bit(w[1], 64)]

decodeFieldMetaData(w) ==
  [id |-> w[3] + 256 * w[4],
   size |-> w[2],
   array |-> Bit(w[1], 2),
   type |-> IF Bit(w[1], 16) THEN kReflectablePtr
            ELSE IF Bit(w[1], 8) THEN kReflectable
            ELSE IF Bit(w[1], 4) THEN kDataBlock
            ELSE kPlain,
   hasDynamicSize |-> Bit(w[1], 32),
   terminator |-> Bit(w[1], 64)]

\* the largest object id encodeObjectMetaData stores (30 bits)
MaxStoredObjectId == 1073741823

\* encodeObjectMetaData: GE_EXCEPT(InvalidParametersException)
objIdTooLarge(objId) == objId > MaxStoredObjectId

\* ObjectMetaData {objectMeta, typeId} as the 8 bytes written to the stream:
\* objectMeta = (objId << 2) | (isBaseClass ? 0x02 : 0) | 0x01
encodeObjectMetaData(objId, objTypeId, isBaseClass) ==
  << (objId % 64) * 4 + (IF isBaseClass THEN 2 ELSE 0) + 1,
     (objId \div 64) % 256,
     (objId \div 16384) % 256,
     (objId \div 4194304) % 256 >>
  \o U32(objTypeId)

decodeObjectMetaData(w, t) ==
  [objId |-> (w[1] \div 4) + 64 * w[2] + 16384 * w[3] + 4194304 * w[4],
   isBaseClass |-> Bit(w[1], 2),
   objTypeId |-> t]

(***************************************************************************)
(* BinarySerializer::encode.  The writer state es is                       *)
(*   out       the bytes copied into the caller's buffers, in stream order *)
(*   queue     m_objectsToEncode                                           *)
(*   addrToId  m_objectAddrToId                                            *)
(*   lastId    m_lastUsedObjectId                                          *)
(*   io        the destination:                                            *)
(*     buffer        "ok" (points into a buffer of the caller), "null", or *)
(*                   "wild" (a null pointer that has been advanced)        *)
(*     bufferLength  the capacity the callback last reported               *)
(*     bytesWritten  *bytesWritten                                         *)
(*     total         m_totalBytesWritten                                   *)
(*     answers       what flushBufferCallback will return, call by call:   *)
(*                   0 is nullptr, n > 0 a buffer of n bytes; the last     *)
(*                   answer is repeated                                    *)
(*     calls         calls of flushBufferCallback so far                   *)
(*     failedAt      Len(out) when a function first returned nullptr, or   *)
(*                   -1                                                    *)
(*     failedCalls   calls when a function first returned nullptr          *)
(*     wild          bytes copied through a pointer that is no buffer      *)
(*     crashed       the process died on such a copy                       *)
(*     flushed       the regions handed to flushBufferCallback, call by    *)
(*                   call                                                  *)
(*     hooks         the onSerializationStarted / onSerializationEnded     *)
(*                   calls made, in order, each with the id of the object  *)
(*                   (0 for an embedded one) and the level of its type     *)
(*     instances     schema instances made by _clone and not destructed    *)
(*     checked       the nullptr was seen by an if (nullptr == buffer) of  *)
(*                   encodeEntry, which runs cleanup() before it returns   *)
(*     onUB          what a copy through a null pointer does in this       *)
(*                   build: "crash" or "continue"                          *)
(***************************************************************************)
\* a local variable: the value v is computed, once, before the code that
\* follows it (Op) runs with it
Let(v, Op(_)) == CHOOSE res \in { Op(val) : val \in {v} } : TRUE

\* a loop that runs its body Turn on the state st until a turn sets st.done,
\* and does so in at most n turns; the turns are grouped in halves so that
\* the evaluation nests to a depth of log n
RECURSIVE While(_, _, _)
While(Turn(_), st, n) ==
  CASE st.done \/ n < 1 -> st
    [] ~st.done /\ n = 1 -> Turn(st)
    [] OTHER -> Let(While(Turn, st, n \div 2),
                    LAMBDA st1 : While(Turn, st1, n - n \div 2))

\* the function that runs has returned nullptr, or the process is gone: the
\* statements that follow in it are not reached
Returned(es) == es.io.buffer = "null" \/ es.io.crashed

\* return nullptr
ReturnNull(es) ==
  [es EXCEPT !.io.buffer = "null",
             !.io.failedAt = IF @ < 0 THEN Len(es.out) ELSE @,
             !.io.failedCalls = IF es.io.failedAt < 0 THEN es.io.calls ELSE @]

\* what lies at a pointer that points into no buffer
NoByte == 0 - 1

\* the region [buffer - *bytesWritten, buffer) that the callback is handed
Region(es) ==
  IF es.io.buffer = "ok"
  THEN SubSeq(es.out, Len(es.out) - es.io.bytesWritten + 1, Len(es.out))
  ELSE [i \in 1..es.io.bytesWritten |-> NoByte]

\* the caller's callback: it is handed the filled region and answers with a
\* buffer and its length, or with nullptr
flushBufferCallback(es) ==
  LET a == Head(es.io.answers)
  IN [es EXCEPT !.io.answers = IF Len(@) > 1 THEN Tail(@) ELSE @,
                !.io.calls = @ + 1,
                !.io.flushed = Append(@, Region(es)),
                !.io.buffer = IF a = 0 THEN "null" ELSE "ok",
                !.io.bufferLength = IF a = 0 THEN @ ELSE a]

\* memcpy(buffer, data, size); buffer += size; *bytesWritten += size
memcpy(es, bytes) ==
  CASE es.io.buffer = "ok" ->
         [es EXCEPT !.out = @ \o bytes, !.io.bytesWritten = @ + Len(bytes)]
    [] es.io.buffer # "ok" /\ Len(bytes) = 0 -> es
    [] es.io.buffer # "ok" /\ Len(bytes) > 0 /\ es.io.onUB = "crash" ->
         [es EXCEPT !.io.crashed = TRUE]
    [] OTHER ->
         [es EXCEPT !.io.buffer = "wild", !.io.wild = @ + Len(bytes),
                    !.io.bytesWritten = @ + Len(bytes)]

\* m_totalBytesWritten += *bytesWritten; buffer = flushBufferCallback(...)
flush(es) == flushBufferCallback([es EXCEPT !.io.total = @ + es.io.bytesWritten])

\* lines 58-72
COPY_TO_BUFFER(es, bytes) ==
  IF es.io.bytesWritten + Len(bytes) > es.io.bufferLength
  THEN Let(flush(es),
           LAMBDA es1 :
             IF es1.io.buffer = "null" \/ es1.io.bufferLength < Len(bytes)
             THEN ReturnNull(es1)
             ELSE memcpy([es1 EXCEPT !.io.bytesWritten = 0], bytes))
  ELSE memcpy(es, bytes)

\* lines 1114-1146: the data goes out in as many pieces as the buffers take
RECURSIVE dataBlockToBuffer(_, _)
dataBlockToBuffer(es, bytes) ==
  LET remainingSpaceInBuffer == es.io.bufferLength - es.io.bytesWritten
      \* the difference is a uint32: below zero it wraps to a huge space
      fits == remainingSpaceInBuffer < 0 \/ Len(bytes) <= remainingSpaceInBuffer
  IN CASE Len(bytes) = 0 -> es
       [] Len(bytes) > 0 /\ fits -> COPY_TO_BUFFER(es, bytes)
       [] OTHER ->
            Let(flush(memcpy(es, SubSeq(bytes, 1, remainingSpaceInBuffer))),
                LAMBDA es1 :
                  IF es1.io.crashed THEN es1
                  ELSE IF es1.io.buffer = "null" \/ es1.io.bufferLength = 0
                  THEN ReturnNull(es1)
                  ELSE dataBlockToBuffer(
                         [es1 EXCEPT !.io.bytesWritten = 0],
                         SubSeq(bytes, remainingSpaceInBuffer + 1, Len(bytes))))

\* findOrCreatePersistentId that hands out the id without recording it
findOrCreatePersistentId_forgets(es, addr) ==
  IF addr \in DOMAIN es.addrToId
  THEN [es |-> es, id |-> es.addrToId[addr]]
  ELSE [es |-> [es EXCEPT !.lastId = @ + 1], id |-> es.lastId]

\* lines 1148-1161
findOrCreatePersistentId(es, addr) ==
  IF addr \in DOMAIN es.addrToId
  THEN [es |-> es, id |-> es.addrToId[addr]]
  ELSE [es |-> [es EXCEPT !.lastId = @ + 1,
                          !.addrToId = @ @@ (addr :> es.lastId)],
        id |-> es.lastId]

\* registerObjectPtr that never looks the object up
registerObjectPtr_noLookup(es, addr) ==
  IF addr = 0 THEN [es |-> es, id |-> 0]
  ELSE LET r == [es |-> [es EXCEPT !.lastId = @ + 1,
                                   !.addrToId = (addr :> es.lastId) @@ @],
                 id |-> es.lastId]
       IN [es |-> [r.es EXCEPT !.queue =
                     Append(@, [objectId |-> r.id, object |-> addr])],
           id |-> r.id]

\* lines 1163-1182
registerObjectPtr(es, addr) ==
  IF addr = 0 THEN [es |-> es, id |-> 0]
  ELSE IF addr \notin DOMAIN es.addrToId
       THEN LET r == findOrCreatePersistentId(es, addr)
            IN [es |-> [r.es EXCEPT !.queue =
                          Append(@, [objectId |-> r.id, object |-> addr])],
                id |-> r.id]
       ELSE [es |-> es, id |-> es.addrToId[addr]]

\* lines 276-279: rttiInstances.push(rtti->_clone(*m_alloc)) and the hook
onSerializationStarted(es, objectId, rtti) ==
  [es EXCEPT !.io.hooks = Append(@, << "started", objectId, rtti >>),
             !.io.instances = @ + 1]

\* the levels of the object whose instances are on rttiInstances when the
\* level rtti is being written, the top of the stack first
RECURSIVE Pushed(_, _)
Pushed(tid, rtti) ==
  IF tid = rtti \/ tid = 0 THEN << rtti >>
  ELSE Pushed(getBaseClass(tid), rtti) \o << tid >>

\* lines 264-272, run by the returns that follow if (nullptr == buffer):
\* every instance on the stack gets its ended hook and is destructed
cleanup(es, objectId, tid, rtti) ==
  IF es.io.checked /\ ~es.io.crashed
  THEN LET levels == Pushed(tid, rtti)
       IN [es EXCEPT !.io.hooks = @ \o [l \in 1..Len(levels) |->
                                           << "ended", objectId, levels[l] >>],
                     !.io.instances = @ - Len(levels),
                     !.io.checked = FALSE]
  ELSE es

\* if (nullptr == buffer) after complexTypeToBuffer or dataBlockToBuffer
Checked(es) ==
  IF es.io.buffer = "null" /\ ~es.io.crashed
  THEN [es EXCEPT !.io.checked = TRUE] ELSE es

RECURSIVE encodeEntry(_, _, _, _), encodeLevel(_, _, _, _, _, _)
RECURSIVE encodeFields(_, _, _, _, _), encodeField(_, _, _, _, _)
RECURSIVE encodeElems(_, _, _, _, _), complexTypeToBuffer(_, _, _)

\* one element of an array field (the bodies of the three per-kind loops)
encodeElems(es, fd, arr, shallow, i) ==
  IF i > Len(arr) \/ Returned(es) THEN es
  ELSE Let(CASE fd.m_type = kReflectablePtr ->
                  LET r == registerObjectPtr(es, IF shallow THEN 0 ELSE arr[i])
                  IN COPY_TO_BUFFER(r.es, U32(r.id))
             [] fd.m_type = kReflectable ->
                  complexTypeToBuffer(es, arr[i], shallow)
             [] fd.m_type = kPlain ->
                  dataBlockToBuffer(es, toBuffer(fd, arr[i])),
           LAMBDA es1 :
             encodeElems(IF fd.m_type = kReflectablePtr THEN es1 ELSE Checked(es1),
                         fd, arr, shallow, i + 1))

encodeField(es, obj, shallow, rtti, fd) ==
  LET v == obj.f[<< rtti, fd.m_uniqueId >>]
      metaData == encodeFieldMetaData(fd.m_uniqueId, fd.typeSize % 256,
                                      fd.m_isVectorType, fd.m_type,
                                      fd.hasDynamicSize, FALSE)
  IN Let(COPY_TO_BUFFER(es, metaData), LAMBDA es1 :
       CASE Returned(es1) -> es1
         [] ~Returned(es1) /\ fd.m_isVectorType ->
              Let(COPY_TO_BUFFER(es1, U32(Len(v))), LAMBDA es2 :
                encodeElems(es2, fd, v, shallow, 1))
         [] ~Returned(es1) /\ ~fd.m_isVectorType /\ fd.m_type = kReflectablePtr ->
              LET r == registerObjectPtr(es1, IF shallow THEN 0 ELSE v)
              IN COPY_TO_BUFFER(r.es, U32(r.id))
         [] ~Returned(es1) /\ ~fd.m_isVectorType /\ fd.m_type = kReflectable ->
              Let(complexTypeToBuffer(es1, v, shallow), Checked)
         [] ~Returned(es1) /\ ~fd.m_isVectorType /\ fd.m_type = kPlain ->
              Let(dataBlockToBuffer(es1, toBuffer(fd, v)), Checked)
         [] OTHER ->
              Let(COPY_TO_BUFFER(es1, U32(Len(v))), LAMBDA es2 :
                IF Returned(es2) THEN es2
                ELSE Let(dataBlockToBuffer(es2, v), Checked)))

encodeFields(es, obj, shallow, rtti, i) ==
  IF i > Len(Fields(rtti)) \/ Returned(es) THEN es
  ELSE Let(encodeField(es, obj, shallow, rtti, Fields(rtti)[i]),
           LAMBDA es1 : encodeFields(es1, obj, shallow, rtti, i + 1))

\* one turn of the do-while over the inheritance hierarchy
encodeLevel(es, obj, objectId, shallow, rtti, isBaseClass) ==
  Let(COPY_TO_BUFFER(onSerializationStarted(es, objectId, rtti),
                     encodeObjectMetaData(objectId, rtti, isBaseClass)),
      LAMBDA es1 :
        IF Returned(es1) THEN es1
        ELSE Let(encodeFields(es1, obj, shallow, rtti, 1),
                 LAMBDA es2 :
                   IF Returned(es2) THEN cleanup(es2, objectId, obj.typeId, rtti)
                   ELSE IF getBaseClass(rtti) = 0 THEN es2
                   ELSE encodeLevel(es2, obj, objectId, shallow,
                                    getBaseClass(rtti), TRUE)))

encodeEntry(es, obj, objectId, shallow) ==
  encodeLevel(es, obj, objectId, shallow, obj.typeId, FALSE)

\* lines 975-1006: the terminator is written whatever encodeEntry returned
complexTypeToBuffer(es, obj, shallow) ==
  Let(encodeEntry(es, obj, 0, shallow),
      LAMBDA es1 :
        IF es1.io.crashed THEN es1
        ELSE COPY_TO_BUFFER(es1, encodeFieldMetaData(0, 0, FALSE, kPlain,
                                                      FALSE, TRUE)))

\* what the build makes of a copy through a null pointer
UBOutcomes == {"crash", "continue"}

\* the arguments buffer, bufferLength and flushBufferCallback of encode()
NewOutput(bufferLength, answers, onUB) ==
  [buffer |-> "ok", bufferLength |-> bufferLength, bytesWritten |-> 0,
   total |-> 0, answers |-> answers, calls |-> 0, failedAt |-> 0 - 1,
   failedCalls |-> 0, wild |-> 0, crashed |-> FALSE, onUB |-> onUB,
   flushed |-> << >>, hooks |-> << >>, instances |-> 0, checked |-> FALSE]

\* a destination that never refuses: every flush hands back a buffer of
\* the same length
MemoryBuffer == NewOutput(BufferLength, << BufferLength >>, "crash")

\* encode(), lines 91-115: reset, id of the root, the root's record
encodeStart(root, obj, shallow, io) ==
  LET es0 == [out |-> << >>, queue |-> << >>, addrToId |-> << >>, lastId |-> 1,
              io |-> io]
      r == findOrCreatePersistentId(es0, root)
  IN encodeEntry(r.es, obj, r.id, shallow)

\* encode(), lines 119-157: one turn of the while(true) loop that finds an
\* object; done is the set serializedObjects
encodeNext(h, es, done, shallow) ==
  LET idx == CHOOSE i \in 1..Len(es.queue) :
                 /\ es.queue[i].objectId \notin done
                 /\ \A j \in 1..(i - 1) : es.queue[j].objectId \in done
      cur == es.queue[idx]
      es1 == [es EXCEPT !.queue = SubSeq(@, 1, idx - 1)
                                  \o SubSeq(@, idx + 1, Len(@))]
  IN [es |-> encodeEntry(es1, h[cur.object], cur.objectId, shallow),
      done |-> done \cup {cur.objectId}]

foundObjectToProcess(es, done) ==
  \E i \in 1..Len(es.queue) : es.queue[i].objectId \notin done

SetToSeqOne(S) == << CHOOSE x \in S : TRUE >>

\* encode(), lines 164-176: the final flush, whose answer is not looked at,
\* and the clean-up
encodeFinish(es) ==
  LET es1 == IF es.io.bytesWritten > 0 THEN flush(es) ELSE es
  IN [es1 EXCEPT !.io.bytesWritten = es1.io.total,
                 !.queue = << >>, !.addrToId = << >>]

\* nullptr == buffer after encodeEntry: GE_EXCEPT
RECURSIVE encodeDrain(_, _, _, _)
encodeDrain(h, es, done, shallow) ==
  IF ~Returned(es) /\ foundObjectToProcess(es, done)
  THEN Let(encodeNext(h, es, done, shallow),
           LAMBDA n : encodeDrain(h, n.es, n.done, shallow))
  ELSE es

\* the whole of encode() into memory: the bytes produced for the object obj
\* that lives at address root and for the graph under it
encode(h, root, obj, shallow) ==
  encodeDrain(h, encodeStart(root, obj, shallow, MemoryBuffer), {}, shallow).out

(***************************************************************************)
(* BinarySerializer::decode.  The reader state ds is                       *)
(*   heap      the live objects (new instances are appended)               *)
(*   map       m_decodeObjectMap : id -> ObjectToDecode                    *)
(*   err       "ok", "exception" (GE_EXCEPT) or "overflow" (call depth)    *)
(*   warn      number of LOGWRN calls                                      *)
(*   maxDepth  deepest nesting of decodeEntry calls seen                   *)
(*   calls     the calls made on the RTTI types of the objects, in order:  *)
(*             onDeserializationStarted, the setters of ReflectablePtr     *)
(*             fields, onDeserializationEnded                              *)
(***************************************************************************)
MaxDepth == 12

Max(a, b) == IF a > b THEN a ELSE b
Min(a, b) == IF a < b THEN a ELSE b

Throw(ds, pos) == [ds |-> [ds EXCEPT !.err = "exception"], pos |-> pos, ret |-> FALSE]

\* std::vector::resize as done by the hosts' array size setters
Resize(arr, n, dflt) ==
  [i \in 1..n |-> IF i <= Len(arr) THEN arr[i] ELSE dflt]

ElemDefault(fd) ==
  CASE fd.m_type = kReflectablePtr -> 0
    [] fd.m_type = kReflectable -> newRTTIObject(fd.rtype)
    [] fd.m_type = kPlain -> IF fd.hasDynamicSize THEN << >>
                             ELSE [i \in 1..fd.typeSize |-> 0]
    [] OTHER -> << >>

\* setValue / fromBuffer / setArraySize / setArrayValue on the object at addr
SetField(h, addr, rtti, fd, v) ==
  [h EXCEPT ![addr].f[<< rtti, fd.m_uniqueId >>] = v]

SetArraySize(h, addr, rtti, fd, n) ==
  [h EXCEPT ![addr].f[<< rtti, fd.m_uniqueId >>] = Resize(@, n, ElemDefault(fd))]

SetArrayValue(h, addr, rtti, fd, i, v) ==
  [h EXCEPT ![addr].f[<< rtti, fd.m_uniqueId >>][i] = v]

\* a skip that leaves the stream where it is
skip_nothing(pos, count) == pos

\* DataStream::skip, as lines 919-921 and 953-955 call it for a field the
\* live class does not have
skip(pos, count) == pos + count

\* a check that compares the static sizes only
typeMismatch_sizeOnly(curGenericField, fm) ==
  ~fm.hasDynamicSize /\ curGenericField.typeSize # fm.size

\* lines 659-682: the record does not fit the field the live class has
typeMismatch(curGenericField, fm) ==
  \/ (~fm.hasDynamicSize /\ curGenericField.typeSize # fm.size)
  \/ curGenericField.m_isVectorType # fm.array
  \/ curGenericField.m_type # fm.type

Reverse(q) == [i \in 1..Len(q) |-> q[Len(q) + 1 - i]]

\* one call on an RTTI type, as the reader state records it
Call(op, object, rtti, arg, weak) ==
  [op |-> op, object |-> object, rtti |-> rtti, arg |-> arg, weak |-> weak]

\* setValue / setArrayValue of a ReflectablePtr field, lines 750 and 871
setValue(object, field, value) ==
  Call("setValue", object, field.m_uniqueId, value, field.kWeakRef)

\* lines 559-569: base classes are notified before derived classes
onDeserializationStarted(ds, object) ==
  IF object = 0 THEN ds
  ELSE LET q == Reverse(Chain(ds.heap[object].typeId))
       IN [ds EXCEPT !.calls = @ \o [i \in 1..Len(q) |->
                                       Call("started", object, q[i], 0, FALSE)]]

\* lines 544-557: the lambda that ends the deserialization of an object
finalizeObject(ds, object) ==
  IF object = 0 THEN ds
  ELSE LET q == Reverse(Chain(ds.heap[object].typeId))
       IN [ds EXCEPT !.calls = @ \o [i \in 1..Len(q) |->
                                       Call("ended", object, q[i], 0, FALSE)]]

RECURSIVE decodeEntry(_, _, _, _, _), decodeLoop(_, _, _, _, _, _)
RECURSIVE decodeTurn(_, _, _, _)
RECURSIVE decodeField(_, _, _, _, _, _, _, _), decodeElems(_, _, _, _, _, _, _, _, _, _)
RECURSIVE resolvePtr(_, _, _, _, _), decodeComplex(_, _, _, _, _)

\* a resolve that gives up on an id without a record
resolvePtr_missingIsFatal(ds, s, cur, childObjectId, depth) ==
  IF childObjectId \notin DOMAIN ds.map
  THEN [ds |-> IF childObjectId # 0 THEN [ds EXCEPT !.err = "exception"] ELSE ds,
        obj |-> 0]
  ELSE LET objToDecode == ds.map[childObjectId]
           needsDecoding == ~cur.kWeakRef /\ ~objToDecode.isDecoded
       IN IF ~needsDecoding THEN [ds |-> ds, obj |-> objToDecode.object]
          ELSE IF objToDecode.decodeInProgress
          THEN [ds |-> [ds EXCEPT !.warn = @ + 1], obj |-> objToDecode.object]
          ELSE LET ds1 == [ds EXCEPT !.map[childObjectId].decodeInProgress = TRUE]
                   r == decodeEntry(ds1, s, objToDecode.offset,
                                    objToDecode.object, depth + 1)
               IN [ds |-> [r.ds EXCEPT !.map[childObjectId].decodeInProgress = FALSE,
                                       !.map[childObjectId].isDecoded = TRUE],
                   obj |-> objToDecode.object]

\* a resolve that hands out every target as it is, decoded or not
resolvePtr_neverDecodes(ds, s, cur, childObjectId, depth) ==
  IF childObjectId \notin DOMAIN ds.map
  THEN [ds |-> IF childObjectId # 0 THEN [ds EXCEPT !.warn = @ + 1] ELSE ds,
        obj |-> 0]
  ELSE [ds |-> ds, obj |-> ds.map[childObjectId].object]

\* a resolve that decodes its target again while the target is being decoded
resolvePtr_reenters(ds, s, cur, childObjectId, depth) ==
  IF childObjectId \notin DOMAIN ds.map
  THEN [ds |-> IF childObjectId # 0 THEN [ds EXCEPT !.warn = @ + 1] ELSE ds,
        obj |-> 0]
  ELSE LET objToDecode == ds.map[childObjectId]
           needsDecoding == ~cur.kWeakRef /\ ~objToDecode.isDecoded
       IN IF ~needsDecoding THEN [ds |-> ds, obj |-> objToDecode.object]
          ELSE LET ds1 == [ds EXCEPT !.map[childObjectId].decodeInProgress = TRUE]
                   r == decodeEntry(ds1, s, objToDecode.offset,
                                    objToDecode.object, depth + 1)
               IN [ds |-> [r.ds EXCEPT !.map[childObjectId].decodeInProgress = FALSE,
                                       !.map[childObjectId].isDecoded = TRUE],
                   obj |-> objToDecode.object]

\* a resolve that leaves a weak reference null
resolvePtr_dropsWeak(ds, s, cur, childObjectId, depth) ==
  IF childObjectId \notin DOMAIN ds.map
  THEN [ds |-> IF childObjectId # 0 THEN [ds EXCEPT !.warn = @ + 1] ELSE ds,
        obj |-> 0]
  ELSE LET objToDecode == ds.map[childObjectId]
       IN IF cur.kWeakRef THEN [ds |-> ds, obj |-> 0]
          ELSE IF objToDecode.isDecoded THEN [ds |-> ds, obj |-> objToDecode.object]
          ELSE IF objToDecode.decodeInProgress
          THEN [ds |-> [ds EXCEPT !.warn = @ + 1], obj |-> objToDecode.object]
          ELSE LET ds1 == [ds EXCEPT !.map[childObjectId].decodeInProgress = TRUE]
                   r == decodeEntry(ds1, s, objToDecode.offset,
                                    objToDecode.object, depth + 1)
               IN [ds |-> [r.ds EXCEPT !.map[childObjectId].decodeInProgress = FALSE,
                                       !.map[childObjectId].isDecoded = TRUE],
                   obj |-> objToDecode.object]

\* lines 707-750 / 828-871: the value a ReflectablePtr field receives
resolvePtr(ds, s, cur, childObjectId, depth) ==
  IF childObjectId \notin DOMAIN ds.map
  THEN [ds |-> IF childObjectId # 0 THEN [ds EXCEPT !.warn = @ + 1] ELSE ds,
        obj |-> 0]
  ELSE LET objToDecode == ds.map[childObjectId]
           needsDecoding == ~cur.kWeakRef /\ ~objToDecode.isDecoded
       IN IF ~needsDecoding THEN [ds |-> ds, obj |-> objToDecode.object]
          ELSE IF objToDecode.decodeInProgress
          THEN [ds |-> [ds EXCEPT !.warn = @ + 1], obj |-> objToDecode.object]
          ELSE LET ds1 == [ds EXCEPT !.map[childObjectId].decodeInProgress = TRUE]
                   r == decodeEntry(ds1, s, objToDecode.offset,
                                    objToDecode.object, depth + 1)
               IN [ds |-> [r.ds EXCEPT !.map[childObjectId].decodeInProgress = FALSE,
                                       !.map[childObjectId].isDecoded = TRUE],
                   obj |-> objToDecode.object]

\* lines 759-774 / 879-893: an embedded object is decoded into a temporary
\* made by newObject() and then copied by value; cur = << >> skips it
decodeComplex(ds, s, pos, cur, depth) ==
  IF cur = << >>
  THEN Let(decodeEntry(ds, s, pos, 0, depth + 1),
           LAMBDA r : [ds |-> r.ds, pos |-> r.pos, val |-> << >>])
  ELSE LET tmp == Len(ds.heap) + 1
           ds1 == [ds EXCEPT !.heap = Append(@, newRTTIObject(cur[1].rtype))]
       IN Let(decodeEntry(ds1, s, pos, tmp, depth + 1),
              LAMBDA r : [ds |-> [r.ds EXCEPT !.heap = SubSeq(@, 1, tmp - 1)],
                          pos |-> r.pos,
                          val |-> r.ds.heap[tmp]])

\* the per-kind loops over the elements of an array field
decodeElems(ds, s, pos, out, rtti, fm, cur, i, n, depth) ==
  IF ds.err # "ok" \/ i > n THEN [ds |-> ds, pos |-> pos]
  ELSE
    CASE fm.type = kReflectablePtr ->
           IF pos + COMPLEX_TYPE_FIELD_SIZE > Len(s)
           THEN [ds |-> [ds EXCEPT !.err = "exception"], pos |-> pos]
           ELSE IF cur = << >>
           THEN decodeElems(ds, s, pos + 4, out, rtti, fm, cur, i + 1, n, depth)
           ELSE Let(resolvePtr(ds, s, cur[1], RdU32(s, pos), depth),
                    LAMBDA r :
                      decodeElems(IF r.ds.err # "ok" THEN r.ds
                                  ELSE [r.ds EXCEPT
                                          !.heap = SetArrayValue(@, out, rtti, cur[1],
                                                                 i, r.obj),
                                          !.calls = Append(@, setValue(out, cur[1],
                                                                       r.obj))],
                                  s, pos + 4, out, rtti, fm, cur, i + 1, n, depth))
      [] fm.type = kReflectable ->
           Let(decodeComplex(ds, s, pos, cur, depth),
               LAMBDA r :
                 decodeElems(IF r.ds.err # "ok" \/ cur = << >> THEN r.ds
                             ELSE [r.ds EXCEPT !.heap =
                                     SetArrayValue(@, out, rtti, cur[1], i, r.val)],
                             s, r.pos, out, rtti, fm, cur, i + 1, n, depth))
      [] fm.type = kPlain ->
           LET typeSize == IF fm.hasDynamicSize
                           THEN (IF pos + 4 <= Len(s) THEN RdU32(s, pos) ELSE 0)
                           ELSE fm.size
           IN IF pos + typeSize > Len(s)
              THEN [ds |-> [ds EXCEPT !.err = "exception"], pos |-> pos]
              ELSE LET ds1 == IF cur = << >> THEN ds
                              ELSE [ds EXCEPT !.heap =
                                      SetArrayValue(@, out, rtti, cur[1], i,
                                        fromBuffer(cur[1],
                                          SubSeq(s, pos + 1, pos + typeSize)))]
                   IN decodeElems(ds1, s,
                                  IF cur = << >> THEN skip(pos, typeSize)
                                  ELSE pos + typeSize,
                                  out, rtti, fm, cur, i + 1, n, depth)
      [] OTHER -> [ds |-> [ds EXCEPT !.err = "exception"], pos |-> pos]

\* lines 684-968: the payload of one field record
decodeField(ds, s, pos, out, rtti, fm, cur, depth) ==
  IF fm.array
  THEN IF pos + NUM_ELEM_FIELD_SIZE > Len(s)
       THEN [ds |-> [ds EXCEPT !.err = "exception"], pos |-> pos]
       ELSE LET arrayNumElems == RdU32(s, pos)
                ds1 == IF cur = << >> THEN ds
                       ELSE [ds EXCEPT !.heap =
                               SetArraySize(@, out, rtti, cur[1], arrayNumElems)]
            IN decodeElems(ds1, s, pos + 4, out, rtti, fm, cur, 1,
                           arrayNumElems, depth)
  ELSE
    CASE fm.type = kReflectablePtr ->
           IF pos + COMPLEX_TYPE_FIELD_SIZE > Len(s)
           THEN [ds |-> [ds EXCEPT !.err = "exception"], pos |-> pos]
           ELSE IF cur = << >> THEN [ds |-> ds, pos |-> pos + 4]
           ELSE Let(resolvePtr(ds, s, cur[1], RdU32(s, pos), depth),
                    LAMBDA r :
                      [ds |-> IF r.ds.err # "ok" THEN r.ds
                              ELSE [r.ds EXCEPT
                                      !.heap = SetField(@, out, rtti, cur[1], r.obj),
                                      !.calls = Append(@, setValue(out, cur[1], r.obj))],
                       pos |-> pos + 4])
      [] fm.type = kReflectable ->
           Let(decodeComplex(ds, s, pos, cur, depth),
               LAMBDA r :
                 [ds |-> IF r.ds.err # "ok" \/ cur = << >> THEN r.ds
                         ELSE [r.ds EXCEPT !.heap =
                                 SetField(@, out, rtti, cur[1], r.val)],
                  pos |-> r.pos])
      [] fm.type = kPlain ->
           LET typeSize == IF fm.hasDynamicSize
                           THEN (IF pos + 4 <= Len(s) THEN RdU32(s, pos) ELSE 0)
                           ELSE fm.size
           IN IF pos + typeSize > Len(s)
              THEN [ds |-> [ds EXCEPT !.err = "exception"], pos |-> pos]
              ELSE [ds |-> IF cur = << >> THEN ds
                           ELSE [ds EXCEPT !.heap =
                                   SetField(@, out, rtti, cur[1],
                                     fromBuffer(cur[1],
                                       SubSeq(s, pos + 1, pos + typeSize)))],
                    pos |-> IF cur = << >> THEN skip(pos, typeSize)
                            ELSE pos + typeSize]
      [] fm.type = kDataBlock ->
           IF pos + DATA_BLOCK_TYPE_FIELD_SIZE > Len(s)
           THEN [ds |-> [ds EXCEPT !.err = "exception"], pos |-> pos]
           ELSE LET dataBlockSize == RdU32(s, pos)
                IN IF pos + 4 + dataBlockSize > Len(s)
                   THEN [ds |-> [ds EXCEPT !.err = "exception"], pos |-> pos]
                   ELSE [ds |-> IF cur = << >> THEN ds
                                ELSE [ds EXCEPT !.heap =
                                        SetField(@, out, rtti, cur[1],
                                          SubSeq(s, pos + 5, pos + 4 + dataBlockSize))],
                         pos |-> IF cur = << >> THEN skip(pos + 4, dataBlockSize)
                                 ELSE pos + 4 + dataBlockSize]

\* lines 577-972: one turn of the while loop over the records that follow an
\* object header.  st is [ds, pos, rtti, ret, done]: rtti is the level of the
\* hierarchy the records belong to, ret the value decodeEntry returns and
\* done is set by the turn that leaves the loop.
decodeTurn(st, s, out, depth) ==
  LET ds == st.ds
      pos == st.pos
      rtti == st.rtti
      exit(r) == [ds |-> r.ds, pos |-> r.pos, rtti |-> rtti, ret |-> r.ret,
                  done |-> TRUE]
      metaData == Word(s, pos)
      isObject == isObjectMetaData(metaData)
      om == decodeObjectMetaData(metaData, RdU32(s, pos + 4))
      r1 == IF rtti # 0 THEN getBaseClass(rtti) ELSE 0
      r2 == IF r1 = 0 \/ r1 # om.objTypeId THEN 0 ELSE r1
      fm == decodeFieldMetaData(metaData)
      cur == IF rtti # 0 THEN findField(rtti, fm.id) ELSE << >>
  IN CASE ~(pos < Len(s)) -> exit([ds |-> ds, pos |-> pos, ret |-> FALSE])
       [] pos < Len(s) /\ pos + META_SIZE > Len(s) -> exit(Throw(ds, pos))
       [] pos + META_SIZE <= Len(s) /\ isObject ->
            CASE pos + OBJECT_META_SIZE > Len(s) -> exit(Throw(ds, pos))
              [] pos + OBJECT_META_SIZE <= Len(s) /\ om.isBaseClass ->
                   [st EXCEPT !.pos = pos + OBJECT_META_SIZE, !.rtti = r2]
              [] OTHER -> exit([ds |-> ds, pos |-> pos, ret |-> TRUE])
       [] pos + META_SIZE <= Len(s) /\ ~isObject /\ fm.terminator ->
            exit([ds |-> ds, pos |-> pos + META_SIZE, ret |-> FALSE])
       [] OTHER ->
            CASE cur # << >> /\ typeMismatch(cur[1], fm) -> exit(Throw(ds, pos))
              [] OTHER ->
                   Let(decodeField(ds, s, pos + META_SIZE, out, rtti,
                                   fm, cur, depth),
                       LAMBDA r : [ds |-> r.ds, pos |-> r.pos, rtti |-> rtti,
                                   ret |-> FALSE, done |-> r.ds.err # "ok"])

\* the while loop: every turn but the last reads at least META_SIZE bytes;
\* the result carries ds, pos and the value ret that decodeEntry returns
decodeLoop(ds, s, pos, out, rtti, depth) ==
  While(LAMBDA st : decodeTurn(st, s, out, depth),
        [ds |-> ds, pos |-> pos, rtti |-> rtti, ret |-> FALSE,
         done |-> ds.err # "ok"],
        (Len(s) - pos) \div META_SIZE + 1)

\* decodeEntry: out = 0 (nullptr) only skips over the record
decodeEntry(ds, s, pos, out, depth) ==
  IF ds.err # "ok" THEN [ds |-> ds, pos |-> pos, ret |-> FALSE]
  ELSE IF depth > MaxDepth
  THEN [ds |-> [ds EXCEPT !.err = "overflow"], pos |-> pos, ret |-> FALSE]
  ELSE IF pos + OBJECT_META_SIZE > Len(s) THEN Throw(ds, pos)
  ELSE LET w == Word(s, pos)
           om == decodeObjectMetaData(w, RdU32(s, pos + 4))
       IN IF ~isObjectMetaData(w) \/ om.isBaseClass THEN Throw(ds, pos)
          ELSE Let(<< onDeserializationStarted(
                        [ds EXCEPT !.maxDepth = Max(@, depth)], out),
                      pos + OBJECT_META_SIZE, out,
                      IF out # 0 THEN ds.heap[out].typeId ELSE 0, depth >>,
                   LAMBDA a :
                     [decodeLoop(a[1], s, a[2], a[3], a[4], a[5]) EXCEPT
                        !.ds = IF @.err # "ok" THEN @
                               ELSE finalizeObject(@, out)])

\* decode(), lines 197-227: one turn of the phase-1 do-while
decodeScan(ds, s, pos) ==
  IF pos + OBJECT_META_SIZE > Len(s) THEN Throw(ds, pos)
  ELSE LET w == Word(s, pos)
           om == decodeObjectMetaData(w, RdU32(s, pos + 4))
       IN IF ~isObjectMetaData(w) \/ om.isBaseClass THEN Throw(ds, pos)
          ELSE LET known == getRTTIfromTypeId(om.objTypeId) # 0
                   object == IF known THEN Len(ds.heap) + 1 ELSE 0
                   ds1 == [ds EXCEPT
                             !.heap = IF known
                                      THEN Append(@, newRTTIObject(om.objTypeId))
                                      ELSE @,
                             !.map = IF om.objId \in DOMAIN @ THEN @
                                     ELSE @ @@ (om.objId :>
                                            [object |-> object, offset |-> pos,
                                             isDecoded |-> FALSE,
                                             decodeInProgress |-> FALSE])]
               IN Let(decodeEntry(ds1, s, pos, 0, 1),
                      LAMBDA r : [ds |-> r.ds, pos |-> r.pos, ret |-> r.ret,
                                  object |-> object])

\* a phase 2 whose turn neither decodes nor marks the entry it has found
decodeResolve_neverDone(ds, s) == ds

\* decode(), lines 230-243: the next entry of the map that is not yet decoded
decodeResolve(ds, s) ==
  LET id == CHOOSE i \in DOMAIN ds.map :
               /\ ~ds.map[i].isDecoded
               /\ \A j \in DOMAIN ds.map : j < i => ds.map[j].isDecoded
      ds1 == [ds EXCEPT !.map[id].decodeInProgress = TRUE]
      r == decodeEntry(ds1, s, ds.map[id].offset, ds.map[id].object, 1)
  IN [r.ds EXCEPT !.map[id].decodeInProgress = FALSE,
                  !.map[id].isDecoded = TRUE]

RECURSIVE decodePhase1(_, _, _, _), decodePhase2(_, _)
decodePhase1(ds, s, pos, root) ==
  Let(decodeScan(ds, s, pos),
      LAMBDA r :
        LET root1 == IF root = 0 THEN r.object ELSE root
        IN IF r.ds.err = "ok" /\ r.ret THEN decodePhase1(r.ds, s, r.pos, root1)
           ELSE [ds |-> r.ds, root |-> root1])

decodePhase2(ds, s) ==
  IF ds.err = "ok" /\ \E i \in DOMAIN ds.map : ~ds.map[i].isDecoded
  THEN Let(decodeResolve(ds, s), LAMBDA ds1 : decodePhase2(ds1, s))
  ELSE ds

\* the whole of decode(): the heap with the new instances and the root
decode(h, s) ==
  IF Len(s) = 0 THEN [heap |-> h, root |-> 0, err |-> "ok", warn |-> 0, maxDepth |-> 0,
        calls |-> << >>]
  ELSE LET ds0 == [heap |-> h, map |-> << >>, err |-> "ok", warn |-> 0, maxDepth |-> 0,
        calls |-> << >>]
       IN Let(decodePhase1(ds0, s, 0, 0),
              LAMBDA p1 :
                Let(decodePhase2(p1.ds, s),
                    LAMBDA p2 :
                      [heap |-> p2.heap, root |-> IF p2.err = "ok" THEN p1.root ELSE 0,
                       err |-> p2.err, warn |-> p2.warn, maxDepth |-> p2.maxDepth,
                       calls |-> p2.calls]))

(***************************************************************************)
(* BinaryCloner.  ObjectReferenceData is [subObjectData], a sequence of    *)
(* SubObjectReferenceData [rtti, references, children].                    *)
(***************************************************************************)
\* address used for an embedded value handed to clone() by reference
EMBEDDED == 0 - 1

RECURSIVE gatherReferences(_, _), gatherLevels(_, _), gatherField(_, _, _, _)
RECURSIVE gatherFields(_, _, _, _), gatherElems(_, _, _, _, _)

\* lines 94-132: the elements of an array field
gatherElems(sub, fd, arr, j, rtti) ==
  IF j > Len(arr) THEN sub
  ELSE LET fieldId == [field |-> fd, arrayIdx |-> j - 1]
       IN Let(CASE fd.m_type = kReflectablePtr ->
                     IF arr[j] # 0
                     THEN [sub EXCEPT !.used = TRUE,
                              !.references = Append(@, [fieldId |-> fieldId,
                                                        object |-> arr[j]])]
                     ELSE sub
                [] fd.m_type = kReflectable ->
                     [sub EXCEPT !.used = TRUE,
                        !.children = Append(@,
                           [fieldId |-> fieldId,
                            subObjectData |->
                              gatherReferences(arr[j], << >>)])]
                [] OTHER -> sub,
              LAMBDA sub1 : gatherElems(sub1, fd, arr, j + 1, rtti))

\* lines 86-170: one field
gatherField(sub, obj, rtti, fd) ==
  LET v == obj.f[<< rtti, fd.m_uniqueId >>]
      fieldId == [field |-> fd, arrayIdx |-> 0 - 1]
  IN IF fd.m_isVectorType THEN gatherElems(sub, fd, v, 1, rtti)
     ELSE CASE fd.m_type = kReflectablePtr ->
                 IF v # 0
                 THEN [sub EXCEPT !.used = TRUE,
                          !.references = Append(@, [fieldId |-> fieldId,
                                                    object |-> v])]
                 ELSE sub
            [] fd.m_type = kReflectable ->
                 [sub EXCEPT !.used = TRUE,
                    !.children = Append(@,
                       [fieldId |-> fieldId,
                        subObjectData |-> gatherReferences(v, << >>)])]
            [] OTHER -> sub

gatherFields(sub, obj, rtti, i) ==
  IF i > Len(Fields(rtti)) THEN sub
  ELSE Let(gatherField(sub, obj, rtti, Fields(rtti)[i]),
           LAMBDA sub1 : gatherFields(sub1, obj, rtti, i + 1))

\* lines 79-175: the while loop over the inheritance hierarchy; a level gets
\* an entry only when it holds a reference or an embedded object
gatherLevels(obj, rtti) ==
  IF rtti = 0 THEN << >>
  ELSE Let(gatherFields([used |-> FALSE, rtti |-> rtti,
                         references |-> << >>, children |-> << >>],
                        obj, rtti, 1),
           LAMBDA sub :
             (IF sub.used
              THEN << [rtti |-> sub.rtti, references |-> sub.references,
                       children |-> sub.children] >>
              ELSE << >>)
             \o gatherLevels(obj, getBaseClass(rtti)))

\* gatherReferences appends to the subObjectData it is given
gatherReferences(obj, subObjectData) ==
  subObjectData \o gatherLevels(obj, obj.typeId)

RECURSIVE restoreReferences(_, _), restoreRefs(_, _, _, _), restoreChildren(_, _, _, _)
RECURSIVE restoreFirst(_, _, _), restoreSecond(_, _, _)

\* lines 199-211: write the recorded references of one level back
restoreRefs(obj, rtti, refs, i) ==
  IF i > Len(refs) THEN obj
  ELSE LET r == refs[i]
           k == << rtti, r.fieldId.field.m_uniqueId >>
       IN Let(IF r.fieldId.field.m_isVectorType
              THEN [obj EXCEPT !.f[k][r.fieldId.arrayIdx + 1] = r.object]
              ELSE [obj EXCEPT !.f[k] = r.object],
              LAMBDA obj1 : restoreRefs(obj1, rtti, refs, i + 1))

\* lines 223-238: descend into the embedded objects of one level
restoreChildren(obj, rtti, children, i) ==
  IF i > Len(children) THEN obj
  ELSE LET c == children[i]
           k == << rtti, c.fieldId.field.m_uniqueId >>
       IN Let(IF c.fieldId.field.m_isVectorType
              THEN [obj EXCEPT !.f[k][c.fieldId.arrayIdx + 1] =
                                 restoreReferences(@, c.subObjectData)]
              ELSE [obj EXCEPT !.f[k] =
                                 restoreReferences(@, c.subObjectData)],
              LAMBDA obj1 : restoreChildren(obj1, rtti, children, i + 1))

\* lines 190-216: the levels in reverse order
restoreFirst(obj, subs, i) ==
  IF i < 1 THEN obj
  ELSE Let(restoreRefs(obj, subs[i].rtti, subs[i].references, 1),
           LAMBDA obj1 : restoreFirst(obj1, subs, i - 1))

\* lines 218-243: the levels in order
restoreSecond(obj, subs, i) ==
  IF i > Len(subs) THEN obj
  ELSE Let(restoreChildren(obj, subs[i].rtti, subs[i].children, 1),
           LAMBDA obj1 : restoreSecond(obj1, subs, i + 1))

\* restoreReferences that does not descend into the embedded objects
restoreReferences_topOnly(obj, subObjectData) ==
  restoreFirst(obj, subObjectData, Len(subObjectData))

\* BinaryCloner::restoreReferences
restoreReferences(obj, subObjectData) ==
  Let(restoreFirst(obj, subObjectData, Len(subObjectData)),
      LAMBDA obj1 : restoreSecond(obj1, subObjectData, 1))

\* a clone that encodes shallowly and restores the references whatever the
\* flag says
clone_alwaysShallow(h, addr, obj, isShallow) ==
  LET referenceData == gatherReferences(obj, << >>)
      data == encode(h, addr, obj, TRUE)
  IN Let(decode(h, data),
         LAMBDA d :
           [heap |-> IF d.root # 0
                     THEN [d.heap EXCEPT ![d.root] =
                             restoreReferences(@, referenceData)]
                     ELSE d.heap,
            obj |-> d.root,
            err |-> d.err])

\* BinaryCloner::clone of the object obj living at address addr: the heap
\* with the new instances and the address of the clone
clone(h, addr, obj, isShallow) ==
  LET referenceData ==
        IF isShallow
        THEN gatherReferences(obj, gatherReferences(obj, << >>))
        ELSE << >>
      data == encode(h, addr, obj, isShallow)
  IN Let(decode(h, data),
         LAMBDA d :
           [heap |-> IF isShallow /\ d.root # 0
                     THEN [d.heap EXCEPT ![d.root] =
                             restoreReferences(@, referenceData)]
                     ELSE d.heap,
            obj |-> d.root,
            err |-> d.err])

(***************************************************************************)
(* SerializedObject: the intermediate tree.  An instance is one of         *)
(*   [kind "null"]                         a null SPtr<SerializedInstance> *)
(*   [kind "field", value, size]           SerializedField                 *)
(*   [kind "block", data, size]            SerializedDataBlock             *)
(*   [kind "array", numElements, entries]  SerializedArray (index -> inst) *)
(*   [kind "object", nid, subObjects]      SerializedObject                *)
(* nid is the identity (the address) of a SerializedObject node; the maps  *)
(* of the diff engine are keyed by it.  Unordered maps are walked in       *)
(* ascending key order.                                                    *)
(***************************************************************************)
NullInst == [kind |-> "null"]

SerializedField(value) == [kind |-> "field", value |-> value, size |-> Len(value)]

SerializedDataBlock(data) == [kind |-> "block", data |-> data, size |-> Len(data)]

getRootTypeId(node) ==
  IF Len(node.subObjects) > 0 THEN node.subObjects[1].typeId ELSE 0

RECURSIVE SortSet(_)
SortSet(S) ==
  IF S = {} THEN << >>
  ELSE LET m == CHOOSE x \in S : \A y \in S : x <= y
       IN << m >> \o SortSet(S \ {m})

RECURSIVE treeEncodeEntry(_, _, _, _, _), treeLevels(_, _, _, _, _, _)
RECURSIVE treeFields(_, _, _, _, _, _, _, _), treeField(_, _, _, _, _, _, _)
RECURSIVE treeElems(_, _, _, _, _, _, _, _), treeChild(_, _, _, _, _)

\* the tree of a referenced object, or null (shallow, or a null reference).
\* path holds the objects whose encodeEntry calls are on the call stack: the
\* encoder keeps no record of what it has visited, so a reference to one of
\* them recurses without end and the call stack overflows
treeChild(tc, h, addr, isShallow, path) ==
  CASE isShallow \/ addr = 0 -> [tc |-> tc, inst |-> NullInst]
    [] ~isShallow /\ addr \in path ->
         [tc |-> [tc EXCEPT !.err = "overflow"], inst |-> NullInst]
    [] OTHER -> treeEncodeEntry(tc, h, h[addr], isShallow, path \cup {addr})

\* geSerializedObject.cpp lines 441-509: the elements of an array field
treeElems(tc, h, fd, arr, isShallow, i, entries, path) ==
  IF i > Len(arr) THEN [tc |-> tc, entries |-> entries]
  ELSE Let(CASE fd.m_type = kReflectablePtr ->
                  treeChild(tc, h, arr[i], isShallow, path)
             [] fd.m_type = kReflectable ->
                  treeEncodeEntry(tc, h, arr[i], isShallow, path)
             [] fd.m_type = kPlain ->
                  [tc |-> tc, inst |-> SerializedField(toBuffer(fd, arr[i]))],
           LAMBDA r : treeElems(r.tc, h, fd, arr, isShallow, i + 1,
                                entries @@ ((i - 1) :> r.inst), path))

\* lines 425-597: the serialized entry of one field
treeField(tc, h, obj, isShallow, rtti, fd, path) ==
  LET v == obj.f[<< rtti, fd.m_uniqueId >>]
  IN IF fd.m_isVectorType
     THEN Let(treeElems(tc, h, fd, v, isShallow, 1, << >>, path),
              LAMBDA r : [tc |-> r.tc,
                          inst |-> [kind |-> "array", numElements |-> Len(v),
                                    entries |-> r.entries]])
     ELSE CASE fd.m_type = kReflectablePtr ->
                 treeChild(tc, h, v, isShallow, path)
            [] fd.m_type = kReflectable ->
                 treeEncodeEntry(tc, h, v, isShallow, path)
            [] fd.m_type = kPlain ->
                 [tc |-> tc, inst |-> SerializedField(toBuffer(fd, v))]
            [] fd.m_type = kDataBlock ->
                 [tc |-> tc, inst |-> SerializedDataBlock(v)]

treeFields(tc, h, obj, isShallow, rtti, i, entries, path) ==
  IF i > Len(Fields(rtti)) THEN [tc |-> tc, entries |-> entries]
  ELSE LET fd == Fields(rtti)[i]
       IN Let(treeField(tc, h, obj, isShallow, rtti, fd, path),
              LAMBDA r : treeFields(r.tc, h, obj, isShallow, rtti, i + 1,
                                    entries @@ (fd.m_uniqueId :> r.inst), path))

\* lines 413-608: the do-while over the inheritance hierarchy
treeLevels(tc, h, obj, isShallow, rtti, path) ==
  IF rtti = 0 THEN [tc |-> tc, subObjects |-> << >>]
  ELSE Let(treeFields(tc, h, obj, isShallow, rtti, 1, << >>, path),
           LAMBDA r :
             Let(treeLevels(r.tc, h, obj, isShallow, getBaseClass(rtti), path),
                 LAMBDA rest :
                   [tc |-> rest.tc,
                    subObjects |-> << [typeId |-> rtti, entries |-> r.entries] >>
                                   \o rest.subObjects]))

\* IntermediateSerializer::encodeEntry; tc is [next, err]: the next free node
\* identity and "overflow" once the recursion has no end
treeEncodeEntry(tc, h, obj, isShallow, path) ==
  IF tc.err # "ok" THEN [tc |-> tc, inst |-> NullInst]
  ELSE LET nid == tc.next
       IN Let(treeLevels([tc EXCEPT !.next = @ + 1], h, obj, isShallow,
                         obj.typeId, path),
              LAMBDA r : [tc |-> r.tc,
                          inst |-> [kind |-> "object", nid |-> nid,
                                    subObjects |-> r.subObjects]])

\* SerializedObject::create
SerializedObject_create(next, h, addr, isShallow) ==
  treeEncodeEntry([next |-> next, err |-> "ok"], h, h[addr], isShallow, {addr})

RECURSIVE treeClone(_, _), treeCloneEntries(_, _, _, _, _), treeCloneSubs(_, _, _)

\* the entries of a SerializedObject level (nullOk) or of a SerializedArray
\* (which calls clone() on an entry without a null check)
treeCloneEntries(tc, entries, ids, i, nullOk) ==
  IF i > Len(ids) \/ tc.err # "ok" THEN [tc |-> tc, entries |-> entries]
  ELSE LET e == entries[ids[i]]
       IN IF e.kind = "null"
          THEN IF nullOk THEN treeCloneEntries(tc, entries, ids, i + 1, nullOk)
               ELSE [tc |-> [tc EXCEPT !.err = "crash"], entries |-> entries]
          ELSE Let(treeClone(tc, e),
                   LAMBDA r :
                     treeCloneEntries(r.tc, [entries EXCEPT ![ids[i]] = r.inst],
                                      ids, i + 1, nullOk))

treeCloneSubs(tc, subs, i) ==
  IF i > Len(subs) THEN [tc |-> tc, subObjects |-> subs]
  ELSE Let(treeCloneEntries(tc, subs[i].entries,
                            SortSet(DOMAIN subs[i].entries), 1, TRUE),
           LAMBDA r :
             treeCloneSubs(r.tc, [subs EXCEPT ![i].entries = r.entries], i + 1))

\* SerializedObject / SerializedField / SerializedDataBlock /
\* SerializedArray ::clone
treeClone(tc, inst) ==
  CASE inst.kind = "object" ->
         LET nid == tc.next
         IN Let(treeCloneSubs([tc EXCEPT !.next = @ + 1], inst.subObjects, 1),
                LAMBDA r : [tc |-> r.tc,
                            inst |-> [kind |-> "object", nid |-> nid,
                                      subObjects |-> r.subObjects]])
    [] inst.kind = "array" ->
         Let(treeCloneEntries(tc, inst.entries,
                              SortSet(DOMAIN inst.entries), 1, FALSE),
             LAMBDA r : [tc |-> r.tc, inst |-> [inst EXCEPT !.entries = r.entries]])
    [] OTHER -> [tc |-> tc, inst |-> inst]

(***************************************************************************)
(* IntermediateSerializer::decode of a tree.  dc is [heap, objectMap,      *)
(* warn]: m_objectMap maps the identity of a SerializedObject node to      *)
(* ObjectToDecode [object, node, isDecoded, decodeInProgress].             *)
(***************************************************************************)
RECURSIVE treeDecodeEntry(_, _, _), treeDecodeSubs(_, _, _, _)
RECURSIVE treeDecodeFields(_, _, _, _, _), treeDecodeField(_, _, _, _, _)
RECURSIVE treeDecodeElems(_, _, _, _, _, _, _), treeDecodePtr(_, _, _)
RECURSIVE treeDecodeEmbedded(_, _)

\* the RTTI type of the object a tree entry describes; 0 for a null entry
\* or a type that is not registered
getChildRtti(entry) ==
  IF entry.kind = "object" THEN getRTTIfromTypeId(getRootTypeId(entry)) ELSE 0

\* geSerializedObject.cpp lines 190-224 / 298-332: the object a
\* ReflectablePtr field or element receives
treeDecodePtr(dc, fd, entry) ==
  IF getChildRtti(entry) = 0 THEN [dc |-> dc, obj |-> 0]
  ELSE
    Let(IF entry.nid \in DOMAIN dc.objectMap THEN dc
        ELSE [dc EXCEPT
                !.heap = Append(@, newRTTIObject(getChildRtti(entry))),
                !.objectMap = @ @@ (entry.nid :>
                   [object |-> Len(dc.heap) + 1, node |-> entry,
                    isDecoded |-> FALSE, decodeInProgress |-> FALSE])],
        LAMBDA dc1 :
          LET objToDecode == dc1.objectMap[entry.nid]
              needsDecoding == ~fd.kWeakRef /\ ~objToDecode.isDecoded
          IN IF ~needsDecoding THEN [dc |-> dc1, obj |-> objToDecode.object]
             ELSE IF objToDecode.decodeInProgress
             THEN [dc |-> [dc1 EXCEPT !.warn = @ + 1], obj |-> objToDecode.object]
             ELSE Let([dc1 EXCEPT !.objectMap[entry.nid].decodeInProgress = TRUE],
                      LAMBDA dc2 :
                        Let(treeDecodeEntry(dc2, objToDecode.object, entry),
                            LAMBDA d :
                              [dc |-> [d EXCEPT
                                         !.objectMap[entry.nid].decodeInProgress = FALSE,
                                         !.objectMap[entry.nid].isDecoded = TRUE],
                               obj |-> objToDecode.object])))

\* lines 240-244 / 347-351: an embedded object is decoded into a new object
\* and copied by value; the new object is released afterwards and its slot
\* of the heap is not used again
treeDecodeEmbedded(dc, entry) ==
  Let([dc EXCEPT !.heap = Append(@, newRTTIObject(getChildRtti(entry)))],
      LAMBDA dc1 :
        Let(treeDecodeEntry(dc1, Len(dc1.heap), entry),
            LAMBDA d : [dc |-> d, val |-> d.heap[Len(dc1.heap)]]))

\* lines 180-268: the elements of an array field, in the order of the map
treeDecodeElems(dc, object, rtti, fd, entries, ids, i) ==
  IF i > Len(ids) THEN dc
  ELSE
    LET idx == ids[i]
        e == entries[idx]
    IN Let(CASE fd.m_type = kReflectablePtr ->
                  Let(treeDecodePtr(dc, fd, e),
                      LAMBDA r :
                        [r.dc EXCEPT !.heap =
                           SetArrayValue(@, object, rtti, fd, idx + 1, r.obj)])
             [] fd.m_type = kReflectable ->
                  IF getChildRtti(e) = 0 THEN dc
                  ELSE Let(treeDecodeEmbedded(dc, e),
                           LAMBDA r :
                             [r.dc EXCEPT !.heap =
                                SetArrayValue(@, object, rtti, fd, idx + 1, r.val)])
             [] fd.m_type = kPlain ->
                  IF e.kind # "field" THEN dc
                  ELSE [dc EXCEPT !.heap =
                          SetArrayValue(@, object, rtti, fd, idx + 1,
                                        fromBuffer(fd, e.value))]
             [] OTHER -> dc,
           LAMBDA d : treeDecodeElems(d, object, rtti, fd, entries, ids, i + 1))

\* lines 172-381: one field of the live class that the tree has an entry for
treeDecodeField(dc, object, rtti, fd, entryData) ==
  IF fd.m_isVectorType
  THEN Let([dc EXCEPT !.heap = SetArraySize(@, object, rtti, fd,
                                            entryData.numElements)],
           LAMBDA d :
             treeDecodeElems(d, object, rtti, fd, entryData.entries,
                             SortSet(DOMAIN entryData.entries), 1))
  ELSE
    CASE fd.m_type = kReflectablePtr ->
           Let(treeDecodePtr(dc, fd, entryData),
               LAMBDA r : [r.dc EXCEPT !.heap =
                             SetField(@, object, rtti, fd, r.obj)])
      [] fd.m_type = kReflectable ->
           IF getChildRtti(entryData) = 0 THEN dc
           ELSE Let(treeDecodeEmbedded(dc, entryData),
                    LAMBDA r : [r.dc EXCEPT !.heap =
                                  SetField(@, object, rtti, fd, r.val)])
      [] fd.m_type = kPlain ->
           IF entryData.kind # "field" THEN dc
           ELSE [dc EXCEPT !.heap = SetField(@, object, rtti, fd,
                                             fromBuffer(fd, entryData.value))]
      [] fd.m_type = kDataBlock ->
           IF entryData.kind # "block" THEN dc
           ELSE [dc EXCEPT !.heap = SetField(@, object, rtti, fd, entryData.data)]

\* lines 163-171: the fields of one class of the hierarchy
treeDecodeFields(dc, object, rtti, subObject, fieldIdx) ==
  IF fieldIdx > Len(Fields(rtti)) THEN dc
  ELSE LET curGenericField == Fields(rtti)[fieldIdx]
       IN Let(IF curGenericField.m_uniqueId \notin DOMAIN subObject.entries
              THEN dc
              ELSE treeDecodeField(dc, object, rtti, curGenericField,
                                   subObject.entries[curGenericField.m_uniqueId]),
              LAMBDA d : treeDecodeFields(d, object, rtti, subObject, fieldIdx + 1))

\* lines 151-161: the sub-objects from the last (the root base class) to the
\* first (the class of the object)
treeDecodeSubs(dc, object, serializableObject, subObjectIdx) ==
  IF subObjectIdx < 1 THEN dc
  ELSE LET subObject == serializableObject.subObjects[subObjectIdx]
           rtti == getRTTIfromTypeId(subObject.typeId)
       IN Let(IF rtti = 0 THEN dc
              ELSE treeDecodeFields(dc, object, rtti, subObject, 1),
              LAMBDA d : treeDecodeSubs(d, object, serializableObject,
                                        subObjectIdx - 1))

\* IntermediateSerializer::decodeEntry
treeDecodeEntry(dc, object, serializableObject) ==
  treeDecodeSubs(dc, object, serializableObject,
                 Len(serializableObject.subObjects))

\* what the loop of lines 113-124 does with entries that are inserted into
\* m_objectMap while it walks the map: an insertion may rehash the map, and
\* the loop then reaches the new entries or misses them
RehashOutcomes == {"visit", "miss"}

Undecoded(dc) == { n \in DOMAIN dc.objectMap : ~dc.objectMap[n].isDecoded }

RECURSIVE treeDecodeRest(_, _, _, _)
\* lines 113-124: the entries that are not decoded yet (targets of weak
\* references)
treeDecodeRest(dc, ids, i, onRehash) ==
  IF i > Len(ids)
  THEN IF onRehash = "visit" /\ Undecoded(dc) # {}
       THEN treeDecodeRest(dc, SortSet(Undecoded(dc)), 1, onRehash)
       ELSE dc
  ELSE LET objToDecode == dc.objectMap[ids[i]]
       IN IF objToDecode.isDecoded THEN treeDecodeRest(dc, ids, i + 1, onRehash)
          ELSE Let([dc EXCEPT !.objectMap[ids[i]].decodeInProgress = TRUE],
                   LAMBDA dc1 :
                     Let(treeDecodeEntry(dc1, objToDecode.object,
                                         objToDecode.node),
                         LAMBDA d :
                           Let([d EXCEPT
                                  !.objectMap[ids[i]].decodeInProgress = FALSE,
                                  !.objectMap[ids[i]].isDecoded = TRUE],
                               LAMBDA e :
                                 treeDecodeRest(e, ids, i + 1, onRehash))))

\* IntermediateSerializer::decode, lines 91-130
SerializedObject_decode(h, serializedObject, onRehash) ==
  LET type == getRTTIfromTypeId(getRootTypeId(serializedObject))
      output == IF type # 0 THEN Len(h) + 1 ELSE 0
      dc0 == [heap |-> h, objectMap |-> << >>, warn |-> 0]
      dc1 == [dc0 EXCEPT
                !.heap = Append(@, newRTTIObject(type)),
                !.objectMap = (serializedObject.nid :>
                   [object |-> output, node |-> serializedObject,
                    isDecoded |-> FALSE, decodeInProgress |-> TRUE])]
  IN Let(IF type = 0 THEN dc0
         ELSE Let(treeDecodeEntry(dc1, output, serializedObject),
                  LAMBDA d :
                    [d EXCEPT
                       !.objectMap[serializedObject.nid].decodeInProgress = FALSE,
                       !.objectMap[serializedObject.nid].isDecoded = TRUE]),
         LAMBDA d :
           Let(treeDecodeRest(d, SortSet(Undecoded(d)), 1, onRehash),
               LAMBDA e : [heap |-> e.heap, output |-> output, warn |-> e.warn]))

(***************************************************************************)
(* BinaryDiff::generateDiff.  gc is [objectMap, next, err]: the map from   *)
(* the identity of a node of the new tree to the diff node produced for    *)
(* it, the next free node identity, and "crash" once a null instance has   *)
(* been dereferenced.                                                      *)
(***************************************************************************)
RECURSIVE BinaryDiff_generateDiff(_, _, _), IDiff_generateDiff(_, _, _, _)
RECURSIVE generateSubs(_, _, _, _, _, _), generateEntries(_, _, _, _, _, _, _, _)
RECURSIVE generateArray(_, _, _, _, _, _, _)

Crash(gc) == [gc EXCEPT !.err = "crash"]

\* geBinaryDiff.cpp lines 40-154: the modification of one value, or null
IDiff_generateDiff(gc, fieldType, orgData, newData) ==
  CASE fieldType \in {kReflectablePtr, kReflectable} ->
         IF newData.kind = "object" /\ newData.nid \in DOMAIN gc.objectMap
         THEN [gc |-> gc, mod |-> gc.objectMap[newData.nid]]
         ELSE IF orgData.kind = "null" \/ newData.kind = "null"
         THEN [gc |-> Crash(gc), mod |-> NullInst]
         ELSE LET childRtti ==
                    IF getRootTypeId(orgData) = getRootTypeId(newData)
                    THEN getRTTIfromTypeId(getRootTypeId(newData))
                    ELSE 0
              IN IF childRtti = 0 THEN [gc |-> gc, mod |-> NullInst]
                 ELSE Let(BinaryDiff_generateDiff(gc, orgData, newData),
                          LAMBDA r :
                            IF r.mod.kind # "null"
                            THEN [gc |-> [r.gc EXCEPT !.objectMap =
                                            (newData.nid :> r.mod) @@ @],
                                  mod |-> r.mod]
                            ELSE r)
    [] fieldType \in {kPlain, kDataBlock} ->
         IF orgData.kind = "null" \/ newData.kind = "null"
         THEN [gc |-> Crash(gc), mod |-> NullInst]
         ELSE LET a == IF fieldType = kPlain THEN orgData.value ELSE orgData.data
                  b == IF fieldType = kPlain THEN newData.value ELSE newData.data
                  isModified == orgData.size # newData.size \/ a # b
              IN [gc |-> gc, mod |-> IF isModified THEN newData ELSE NullInst]

\* lines 373-399: the elements of the new array against the original ones;
\* arr is the SerializedArray being built, null until an element differs
generateArray(gc, fd, orgArray, newArray, ids, i, arr) ==
  IF i > Len(ids) \/ gc.err # "ok" THEN [gc |-> gc, mod |-> arr]
  ELSE LET idx == ids[i]
           elem == newArray.entries[idx]
           base == IF arr.kind = "null"
                   THEN [kind |-> "array",
                         numElements |-> newArray.numElements,
                         entries |-> << >>]
                   ELSE arr
       IN Let(IF idx \notin DOMAIN orgArray.entries
              THEN IF elem.kind = "null"
                   THEN [gc |-> Crash(gc), mod |-> NullInst]
                   ELSE Let(treeClone(gc, elem),
                            LAMBDA c : [gc |-> c.tc, mod |-> c.inst])
              ELSE IDiff_generateDiff(gc, fd.m_type, orgArray.entries[idx], elem),
              LAMBDA r :
                generateArray(r.gc, fd, orgArray, newArray, ids, i + 1,
                              IF r.mod.kind = "null" THEN arr
                              ELSE [base EXCEPT !.entries = (idx :> r.mod) @@ @]))

\* lines 346-457: the entries of one level of the new object; entries is the
\* diffSubObject being built and outNid the identity of output (0: null)
generateEntries(gc, rtti, orgSub, newSub, ids, i, entries, outNid) ==
  IF i > Len(ids) \/ gc.err # "ok"
  THEN [gc |-> gc, entries |-> entries, outNid |-> outNid]
  ELSE LET fid == ids[i]
           found == findField(rtti, fid)
       IN IF found = << >>
          THEN generateEntries(gc, rtti, orgSub, newSub, ids, i + 1, entries, outNid)
          ELSE
          LET fd == found[1]
              newEntryData == newSub.entries[fid]
              orgEntryData == IF orgSub # << >> /\ fid \in DOMAIN orgSub[1].entries
                              THEN orgSub[1].entries[fid]
                              ELSE NullInst
              both == newEntryData.kind # "null" /\ orgEntryData.kind # "null"
              cloned == Let(treeClone(gc, newEntryData),
                            LAMBDA c : [gc |-> c.tc, mod |-> c.inst, has |-> TRUE])
          IN Let(IF fd.m_isVectorType
                 THEN IF both
                      THEN Let(generateArray(gc, fd, orgEntryData, newEntryData,
                                 SortSet(DOMAIN newEntryData.entries), 1, NullInst),
                               LAMBDA a : [gc |-> a.gc, mod |-> a.mod,
                                           has |-> a.mod.kind # "null"])
                      ELSE IF newEntryData.kind = "null"
                      THEN [gc |-> gc,
                            mod |-> [kind |-> "array", numElements |-> 0,
                                     entries |-> << >>],
                            has |-> TRUE]
                      ELSE cloned
                 ELSE IF both
                      THEN Let(IDiff_generateDiff(gc, fd.m_type,
                                                  orgEntryData, newEntryData),
                               LAMBDA d : [gc |-> d.gc, mod |-> d.mod,
                                           has |-> d.mod.kind # "null"])
                      ELSE IF newEntryData.kind = "null"
                      THEN [gc |-> gc,
                            mod |-> CASE fd.m_type = kPlain -> SerializedField(<< >>)
                                      [] fd.m_type = kDataBlock ->
                                           SerializedDataBlock(<< >>)
                                      [] OTHER -> NullInst,
                            has |-> TRUE]
                      ELSE cloned,
                 LAMBDA r :
                   LET alloc == r.has /\ outNid = 0
                   IN generateEntries(
                        IF alloc THEN [r.gc EXCEPT !.next = @ + 1] ELSE r.gc,
                        rtti, orgSub, newSub, ids, i + 1,
                        IF r.has THEN (fid :> r.mod) @@ entries ELSE entries,
                        IF alloc THEN r.gc.next ELSE outNid))

\* lines 331-458: the levels of the new object
generateSubs(gc, orgObj, newObj, s, subs, outNid) ==
  IF s > Len(newObj.subObjects) \/ gc.err # "ok"
  THEN [gc |-> gc, subs |-> subs, outNid |-> outNid]
  ELSE LET subObject == newObj.subObjects[s]
           rtti == getRTTIfromTypeId(subObject.typeId)
           orgIdx == {k \in 1..Len(orgObj.subObjects) :
                        orgObj.subObjects[k].typeId = subObject.typeId}
           orgSub == IF orgIdx = {} THEN << >>
                     ELSE << orgObj.subObjects[CHOOSE k \in orgIdx :
                                                 \A j \in orgIdx : k <= j] >>
       IN IF rtti = 0
          THEN generateSubs(gc, orgObj, newObj, s + 1, subs, outNid)
          ELSE Let(generateEntries(gc, rtti, orgSub, subObject,
                                   SortSet(DOMAIN subObject.entries), 1,
                                   << >>, outNid),
                   LAMBDA r :
                     generateSubs(r.gc, orgObj, newObj, s + 1,
                                  IF DOMAIN r.entries = {} THEN subs
                                  ELSE Append(subs, [typeId |-> rtti,
                                                     entries |-> r.entries]),
                                  r.outNid))

\* BinaryDiff::generateDiff(orgObj, newObj, objectMap): the diff node, or null
BinaryDiff_generateDiff(gc, orgObj, newObj) ==
  Let(generateSubs(gc, orgObj, newObj, 1, << >>, 0),
      LAMBDA r :
        [gc |-> r.gc,
         mod |-> IF r.outNid = 0 THEN NullInst
                 ELSE [kind |-> "object", nid |-> r.outNid, subObjects |-> r.subs]])

\* IDiff::generateDiff(orgObj, newObj)
generateDiff(next, orgObj, newObj) ==
  BinaryDiff_generateDiff([objectMap |-> << >>, next |-> next, err |-> "ok"],
                          orgObj, newObj)

(***************************************************************************)
(* BinaryDiff::applyDiff, the pass that turns a diff into DiffCommands.    *)
(* ac is [heap, objectMap, cmds, err]: the heap (the pass allocates new    *)
(* and cloned objects), the map from a diff node to the object created     *)
(* for it, diffCommands, and "crash" once a null has been dereferenced.    *)
(***************************************************************************)
kArraySize == "kArraySize"
kObjectStart == "kObjectStart"
kSubObjectStart == "kSubObjectStart"
kObjectEnd == "kObjectEnd"

NoField == << 0, 0 >>

DiffCommand(type, isArray, field, object, value, arrayIdx, arraySize) ==
  [type |-> type, isArray |-> isArray, field |-> field, object |-> object,
   value |-> value, arrayIdx |-> arrayIdx, arraySize |-> arraySize]

push_back(ac, command) == [ac EXCEPT !.cmds = Append(@, command)]

\* isDerivedFrom of the object's type: base is the type or one of its bases
isDerivedFrom(typeId, base) ==
  \E k \in 1..Len(Chain(typeId)) : Chain(typeId)[k] = base

\* objectMap.find / insert of a freshly created object (lines 573-577, 699-703)
findOrInsert(ac, node, childRtti) ==
  IF node.nid \in DOMAIN ac.objectMap THEN ac
  ELSE [ac EXCEPT !.heap = Append(@, newRTTIObject(childRtti)),
                  !.objectMap = (node.nid :> (Len(ac.heap) + 1)) @@ @]

\* BinaryCloner::clone(&childObj, true) of an embedded value
cloneEmbedded(ac, value) ==
  Let(clone(ac.heap, EMBEDDED, value, TRUE),
      LAMBDA c : [ac |-> [ac EXCEPT !.heap = c.heap], obj |-> c.obj])

RECURSIVE BinaryDiff_applyDiff(_, _, _), applySubs(_, _, _, _)
RECURSIVE applyEntries(_, _, _, _, _, _), applyPtrElems(_, _, _, _, _, _, _)
RECURSIVE applyCloneElems(_, _, _, _, _, _), applyReflElems(_, _, _, _, _, _)
RECURSIVE applyReflCmds(_, _, _, _, _), applyPlainElems(_, _, _, _, _)

\* lines 533-595
applyPtrElems(ac, object, key, diffArray, ids, i, orgArraySize) ==
  IF i > Len(ids) \/ ac.err # "ok" THEN ac
  ELSE
  LET idx == ids[i]
      arrayElemData == diffArray.entries[idx]
      command(o) == DiffCommand(kReflectablePtr, TRUE, key, o, << >>, idx, 0)
      childObj == IF idx < orgArraySize THEN ac.heap[object].f[key][idx + 1] ELSE 0
  IN Let(IF arrayElemData.kind = "null" THEN push_back(ac, command(0))
         ELSE IF childObj # 0
         THEN BinaryDiff_applyDiff(ac, childObj, arrayElemData)
         ELSE LET childRtti == getRTTIfromTypeId(getRootTypeId(arrayElemData))
              IN IF childRtti = 0 THEN push_back(ac, command(0))
                 ELSE LET a == findOrInsert(ac, arrayElemData, childRtti)
                          o == a.objectMap[arrayElemData.nid]
                      IN push_back(BinaryDiff_applyDiff(a, o, arrayElemData),
                                   command(o)),
         LAMBDA ac1 :
           applyPtrElems(ac1, object, key, diffArray, ids, i + 1, orgArraySize))

\* lines 604-609: newArrayElements starts as clones of the existing elements
applyCloneElems(ac, object, key, i, minArrayLength, newArrayElements) ==
  IF i > minArrayLength THEN [ac |-> ac, elems |-> newArrayElements]
  ELSE Let(cloneEmbedded(ac, ac.heap[object].f[key][i]),
           LAMBDA c : applyCloneElems(c.ac, object, key, i + 1, minArrayLength,
                                      [newArrayElements EXCEPT ![i] = c.obj]))

\* lines 611-640
applyReflElems(ac, diffArray, ids, i, orgArraySize, newArrayElements) ==
  IF i > Len(ids) \/ ac.err # "ok" THEN [ac |-> ac, elems |-> newArrayElements]
  ELSE
  LET idx == ids[i]
      arrayElemData == diffArray.entries[idx]
  IN IF idx + 1 > Len(newArrayElements) \/
        (idx >= orgArraySize /\ arrayElemData.kind = "null")
     THEN [ac |-> Crash(ac), elems |-> newArrayElements]
     ELSE IF idx < orgArraySize
     THEN Let(BinaryDiff_applyDiff(ac, newArrayElements[idx + 1], arrayElemData),
              LAMBDA ac1 : applyReflElems(ac1, diffArray, ids, i + 1, orgArraySize,
                                          newArrayElements))
     ELSE LET childRtti == getRTTIfromTypeId(getRootTypeId(arrayElemData))
              newObject == Len(ac.heap) + 1
              a == [ac EXCEPT !.heap = Append(@, newRTTIObject(childRtti))]
          IN IF childRtti = 0
             THEN applyReflElems(ac, diffArray, ids, i + 1, orgArraySize,
                                 newArrayElements)
             ELSE Let(BinaryDiff_applyDiff(a, newObject, arrayElemData),
                      LAMBDA ac1 :
                        applyReflElems(ac1, diffArray, ids, i + 1, orgArraySize,
                          [newArrayElements EXCEPT ![idx + 1] = newObject]))

\* lines 642-651
applyReflCmds(ac, key, newArrayElements, i, numArrayElements) ==
  IF i > numArrayElements THEN ac
  ELSE applyReflCmds(push_back(ac, DiffCommand(kReflectable, TRUE, key,
                                               newArrayElements[i], << >>,
                                               i - 1, 0)),
                     key, newArrayElements, i + 1, numArrayElements)

\* lines 656-670
applyPlainElems(ac, key, diffArray, ids, i) ==
  IF i > Len(ids) THEN ac
  ELSE LET fieldData == diffArray.entries[ids[i]]
       IN applyPlainElems(
            IF fieldData.kind = "null" THEN ac
            ELSE push_back(ac, DiffCommand(kPlain, TRUE, key, 0, fieldData.value,
                                           ids[i], 0)),
            key, diffArray, ids, i + 1)

\* lines 505-791: the entries of one level of the diff
applyEntries(ac, object, rtti, subObject, ids, i) ==
  IF i > Len(ids) \/ ac.err # "ok" THEN ac
  ELSE
  LET fid == ids[i]
      found == findField(rtti, fid)
  IN IF found = << >> THEN applyEntries(ac, object, rtti, subObject, ids, i + 1)
     ELSE
     LET fd == found[1]
         key == << rtti, fid >>
         diffData == subObject.entries[fid]
         cur == ac.heap[object].f[key]
     IN Let(
           IF fd.m_isVectorType
           THEN IF diffData.kind = "null" THEN Crash(ac)
                ELSE
                LET numArrayElements == diffData.numElements
                    sized == push_back(ac, DiffCommand(kArraySize, TRUE, key, 0,
                                                       << >>, 0, numArrayElements))
                    eids == SortSet(DOMAIN diffData.entries)
                IN CASE fd.m_type = kReflectablePtr ->
                          applyPtrElems(sized, object, key, diffData, eids, 1,
                                        Len(cur))
                     [] fd.m_type = kReflectable ->
                          Let(applyCloneElems(sized, object, key, 1,
                                Min(Len(cur), numArrayElements),
                                [k \in 1..numArrayElements |-> 0]),
                              LAMBDA c :
                                Let(applyReflElems(c.ac, diffData, eids, 1,
                                                   Len(cur), c.elems),
                                    LAMBDA r :
                                      IF r.ac.err # "ok" THEN r.ac
                                      ELSE applyReflCmds(r.ac, key, r.elems, 1,
                                                         numArrayElements)))
                     [] fd.m_type = kPlain ->
                          applyPlainElems(sized, key, diffData, eids, 1)
                     [] OTHER -> sized
           ELSE CASE fd.m_type = kReflectablePtr ->
                       LET command(o) == DiffCommand(kReflectablePtr, FALSE, key,
                                                     o, << >>, 0, 0)
                       IN IF diffData.kind = "null" THEN push_back(ac, command(0))
                          ELSE IF cur # 0
                          THEN push_back(BinaryDiff_applyDiff(ac, cur, diffData),
                                         command(cur))
                          ELSE LET childRtti ==
                                     getRTTIfromTypeId(getRootTypeId(diffData))
                               IN IF childRtti = 0 THEN push_back(ac, command(0))
                                  ELSE LET a == findOrInsert(ac, diffData, childRtti)
                                           o == a.objectMap[diffData.nid]
                                       IN push_back(
                                            BinaryDiff_applyDiff(a, o, diffData),
                                            command(o))
                  [] fd.m_type = kReflectable ->
                       Let(cloneEmbedded(ac, cur),
                           LAMBDA c :
                             push_back(BinaryDiff_applyDiff(c.ac, c.obj, diffData),
                                       DiffCommand(kReflectable, FALSE, key, c.obj,
                                                   << >>, 0, 0)))
                  [] fd.m_type = kPlain ->
                       IF diffData.kind = "null" THEN Crash(ac)
                       ELSE IF diffData.size > 0
                       THEN push_back(ac, DiffCommand(kPlain, FALSE, key, 0,
                                                      diffData.value, 0, 0))
                       ELSE ac
                  [] fd.m_type = kDataBlock ->
                       IF diffData.kind = "null" THEN Crash(ac)
                       ELSE push_back(ac, DiffCommand(kDataBlock, FALSE, key, 0,
                                                      diffData.data, 0, 0))
           ,
           LAMBDA ac1 : applyEntries(ac1, object, rtti, subObject, ids, i + 1))

\* lines 482-794: the levels of the diff.  The kSubObjectStart command of a
\* level goes to the local list commands, which is moved into
\* commandsPerSubObj and never reaches diffCommands.
applySubs(ac, object, diff, s) ==
  IF s > Len(diff.subObjects) \/ ac.err # "ok" THEN ac
  ELSE LET subObject == diff.subObjects[s]
           rtti == getRTTIfromTypeId(subObject.typeId)
       IN IF rtti = 0 \/ ~isDerivedFrom(ac.heap[object].typeId, rtti)
          THEN applySubs(ac, object, diff, s + 1)
          ELSE Let(applyEntries(ac, object, rtti, subObject,
                                SortSet(DOMAIN subObject.entries), 1),
                   LAMBDA ac1 : applySubs(ac1, object, diff, s + 1))

\* BinaryDiff::applyDiff(object, diff, alloc, objectMap, diffCommands, context)
BinaryDiff_applyDiff(ac, object, diff) ==
  IF ac.err # "ok" THEN ac
  ELSE IF object = 0 \/ diff.kind = "null" THEN ac
  ELSE IF ac.heap[object].typeId # getRootTypeId(diff) THEN ac
  ELSE Let(applySubs(ac, object, diff, 1),
           LAMBDA r :
             IF r.err # "ok" THEN r
             ELSE push_back(
                    push_back(r, DiffCommand(kObjectStart, FALSE, NoField, object,
                                             << >>, 0, 0)),
                    DiffCommand(kObjectEnd, FALSE, NoField, object, << >>, 0, 0)))

(***************************************************************************)
(* State.                                                                  *)
(***************************************************************************)
VARIABLES
  heap,                 \* the live objects; 1..NumObjs are the host's graph
  edits,                \* number of mutations the host has made
  pc,                   \* where the program is
  shallow,              \* the shallow argument of the running encode
  stream,               \* the bytes encode has produced
  m_objectsToEncode,    \* BinarySerializer::m_objectsToEncode
  m_objectAddrToId,     \* BinarySerializer::m_objectAddrToId
  m_lastUsedObjectId,   \* BinarySerializer::m_lastUsedObjectId
  output,               \* encode(): buffer, bufferLength, bytesWritten, callback
  wire,                 \* the records of a stream that came from elsewhere
  serializedObjects,    \* encode(): ids already taken off the queue
  encodedIds,           \* ids of the records encode() started, in order
  m_decodeObjectMap,    \* BinarySerializer::m_decodeObjectMap
  dataPos,              \* decode(): position of the stream in phase 1
  rootObject,           \* decode(): the object it returns
  status,               \* "ok", "exception" or "overflow"
  warnings,             \* LOGWRN calls of the running decode
  callDepth,            \* deepest decodeEntry nesting of the running decode
  rttiCalls,            \* decode(): the calls made on the RTTI types, in order
  allRTTITypes,         \* IReflectable::getAllRTTITypes(): type id -> descriptor
  registrations,        \* the descriptors handed to _registerRTTIType, in order
  m_size,               \* MinHeap::m_size
  m_node,               \* MinHeap::m_node, the HeapNode records
  m_ptr,                \* MinHeap::m_ptr: the node each heap position points to
  heapHistory,          \* the calls made on the MinHeap and what they reported
  m_data,               \* Bitfield::m_data, the dwords of the buffer
  m_maxBits,            \* Bitfield::m_maxBits
  m_numBits,            \* Bitfield::m_numBits
  bitHistory,           \* the last call made on the Bitfield and the bits before it
  metaData,             \* the last metadata word encoded, its arguments and what decoding gave
  clonedObj,            \* BinaryCloner::clone(): the object it returned
  numNodes,             \* SerializedObject nodes allocated so far
  orgObj,               \* the tree SerializedObject::create made of the original
  newObj,               \* the tree made of the modified object
  diff,                 \* the result of IDiff::generateDiff
  commands,             \* IDiff::applyDiff: the DiffCommand list
  cmdIdx,               \* IDiff::applyDiff: commands executed so far
  destObject,           \* IDiff::applyDiff: destObject
  rttiInstance,         \* IDiff::applyDiff: rttiInstance as << type id, object >>
  objectStack,          \* IDiff::applyDiff: objectStack
  rttiInstances         \* IDiff::applyDiff: rttiInstances

diffVars == << numNodes, orgObj, newObj, diff, commands, cmdIdx,
               destObject, rttiInstance, objectStack, rttiInstances >>

vars == << metaData, m_data, m_maxBits, m_numBits, bitHistory, m_size, m_node, m_ptr, heapHistory, allRTTITypes, registrations, heap, edits, pc, shallow, stream, m_objectsToEncode,
           m_objectAddrToId, m_lastUsedObjectId, output, wire, serializedObjects,
           encodedIds, m_decodeObjectMap, dataPos, rootObject, status,
           warnings, callDepth, rttiCalls, clonedObj, diffVars >>

codecVars == << shallow, stream, m_objectsToEncode, m_objectAddrToId,
                m_lastUsedObjectId, output, wire, serializedObjects, encodedIds,
                m_decodeObjectMap, dataPos, rootObject, status, warnings,
                callDepth, rttiCalls >>

(***************************************************************************)
(* Bitfield.  A uint32 is the set of the positions 0..31 of its bits that  *)
(* are 1, so that shifts lose the bits that leave the word.  A bitfield bf *)
(* is [m_data, m_maxBits, m_numBits]; m_data is the sequence of the dwords *)
(* of the buffer and << >> is nullptr.  ge_allocN does not initialise the  *)
(* buffer: what a new dword holds is an input of the operation.            *)
(***************************************************************************)
\* 0xFFFFFFFF as a dword
AllBits == 0..(BITS_PER_DWORD - 1)

\* NumLimit::MAX_UINT32 as an index: the one value no bit index equals
MAX_UINT32 == 0 - 1

\* what a dword of a buffer that was never written may hold
Uninitialized == { {}, AllBits, {0, 31} }

\* Math::divideAndRoundUp
divideAndRoundUp(n, d) == (n + d - 1) \div d

\* Bitwise::leastSignificantBit of a dword that is not 0
leastSignificantBit(bits) == CHOOSE b \in bits : \A c \in bits : b <= c

\* w >> 1
ShiftRight(w) == { b - 1 : b \in w \ {0} }

\* w - 1 in 32 bits
Decrement(w) ==
  IF w = {} THEN AllBits
  ELSE (w \ {leastSignificantBit(w)}) \cup 0..(leastSignificantBit(w) - 1)

\* lines 464-486: the new buffer holds the old dwords and, after them, what
\* the allocator left there
realloc(bf, numBits, garbage) ==
  LET n == divideAndRoundUp(numBits, BITS_PER_DWORD) * BITS_PER_DWORD
      numDwords == divideAndRoundUp(n, BITS_PER_DWORD)
      copied == IF bf.m_data = << >> THEN 0
                ELSE divideAndRoundUp(bf.m_maxBits, BITS_PER_DWORD)
  IN IF n # bf.m_maxBits
     THEN [bf EXCEPT !.m_data = [i \in 1..numDwords |->
                                   IF i <= copied THEN bf.m_data[i] ELSE garbage],
                     !.m_maxBits = n]
     ELSE bf

\* lines 373-384: memset over the dwords that hold bits
reset(bf, value) ==
  IF bf.m_numBits = 0 THEN bf
  ELSE [bf EXCEPT !.m_data =
          [i \in 1..Len(@) |->
             IF i <= divideAndRoundUp(bf.m_numBits, BITS_PER_DWORD)
             THEN (IF value THEN AllBits ELSE {})
             ELSE @[i]]]

\* lines 187-193: Bitfield(value, count)
Bitfield(value, count, garbage) ==
  LET bf == [m_data |-> << >>, m_maxBits |-> 0, m_numBits |-> count]
  IN IF count > 0 THEN reset(realloc(bf, count, garbage), value) ELSE bf

\* lines 253-261 and 64-74: bf[idx] = value
assignBit(bf, idx, value) ==
  LET bit == idx % BITS_PER_DWORD
      dword == idx \div BITS_PER_DWORD + 1
  IN [bf EXCEPT !.m_data[dword] = IF value THEN @ \cup {bit} ELSE @ \ {bit}]

\* lines 263-271 and 40-42: bf[idx]
bitAt(bf, idx) == (idx % BITS_PER_DWORD) \in bf.m_data[idx \div BITS_PER_DWORD + 1]

\* lines 277-290
add(bf, value, garbage) ==
  LET grown == IF bf.m_numBits >= bf.m_maxBits
               THEN realloc(bf, bf.m_maxBits + 4 * BITS_PER_DWORD
                                  + bf.m_maxBits \div 2, garbage)
               ELSE bf
      index == bf.m_numBits
  IN [bf |-> assignBit([grown EXCEPT !.m_numBits = @ + 1], index, value),
      ret |-> index]

RECURSIVE removeLoop(_, _, _)

\* a removal that shifts the dword of the bit and no other
removeLoop_oneDword(data, i, lastDwordIndex) == data

\* lines 317-323: the dwords that follow the one the bit was taken from
removeLoop(data, i, lastDwordIndex) ==
  IF ~(i < lastDwordIndex) THEN data
  ELSE removeLoop(
         [data EXCEPT
            ![i + 1] = @ \cup (IF 0 \in data[i + 2] THEN {31} ELSE {}),
            ![i + 2] = ShiftRight(@)],
         i + 1, lastDwordIndex)

\* lines 295-326
remove(bf, index) ==
  LET dwordIndex == index \div BITS_PER_DWORD
      mask == {index % BITS_PER_DWORD}
      curDwordBits == bf.m_data[dwordIndex + 1]
      firstHalfMask == Decrement(mask)
      secondHalfMask == AllBits \ firstHalfMask
      data1 == [bf.m_data EXCEPT ![dwordIndex + 1] =
                  (curDwordBits \cap firstHalfMask)
                  \cup (ShiftRight(curDwordBits) \cap secondHalfMask)]
      lastDwordIndex == (bf.m_numBits - 1) \div BITS_PER_DWORD
  IN [bf EXCEPT !.m_data = removeLoop(data1, dwordIndex, lastDwordIndex),
                !.m_numBits = @ - 1]

\* lines 332-352: the loop from dword i on
RECURSIVE findFrom(_, _, _)
findFrom(bf, value, i) ==
  LET mask == IF value THEN {} ELSE AllBits
      numDWords == divideAndRoundUp(bf.m_numBits, BITS_PER_DWORD)
  IN IF ~(i < numDWords) THEN MAX_UINT32
     ELSE IF mask = bf.m_data[i + 1] THEN findFrom(bf, value, i + 1)
     ELSE LET bits == IF value THEN bf.m_data[i + 1]
                      ELSE AllBits \ bf.m_data[i + 1]
              bitIndex == i * BITS_PER_DWORD + leastSignificantBit(bits)
          IN IF bitIndex < bf.m_numBits THEN bitIndex
             ELSE findFrom(bf, value, i + 1)

find(bf, value) == findFrom(bf, value, 0)

\* no call made on the bitfield yet
\* no metadata word has been encoded
NoMetaData == [op |-> "none", args |-> << >>, word |-> << >>, out |-> << >>]

NoBitCalls == [op |-> "none", index |-> 0, before |-> << >>, ops |-> 0]

(***************************************************************************)
(* MinHeap<K, V>.  A heap h is [m_size, m_node, m_ptr]: m_node holds the   *)
(* HeapNode records [key, value, index], m_ptr[p + 1] names the node that  *)
(* position p of the heap points to (positions count from 0 as in the      *)
(* code, a node is named by its place in m_node, 0 stands for nullptr).    *)
(***************************************************************************)
HeapNode(key, value, index) == [key |-> key, value |-> value, index |-> index]

\* m_ptr[p]
At(h, p) == h.m_ptr[p + 1]

\* m_ptr[p] = node; m_ptr[p]->index = p
Place(h, p, node) ==
  [h EXCEPT !.m_ptr[p + 1] = node, !.m_node[node].index = p]

\* MinHeap::resize, geMinHeap.h lines 229-245
resize(elements) ==
  [m_size |-> 0,
   m_node |-> [i \in 1..elements |-> HeapNode(0, 0, i - 1)],
   m_ptr |-> [i \in 1..elements |-> i]]

RECURSIVE siftUp(_, _, _, _)
\* lines 105-118: the new node climbs while its parent holds a larger value
siftUp(h, node, value, child) ==
  IF child > 0
  THEN LET parent == (child - 1) \div 2
       IN IF h.m_node[At(h, parent)].value <= value
          THEN [h |-> h, child |-> child]
          ELSE Let(Place(Place(h, child, At(h, parent)), parent, node),
                   LAMBDA h1 : siftUp(h1, node, value, parent))
  ELSE [h |-> h, child |-> child]

\* MinHeap::insert, lines 93-121: the heap and the node it returns
insert(h, key, value) ==
  IF Len(h.m_node) = h.m_size THEN [h |-> h, ret |-> 0]
  ELSE LET child == h.m_size
           node == At(h, child)
       IN Let(siftUp([h EXCEPT !.m_size = @ + 1,
                               !.m_node[node].key = key,
                               !.m_node[node].value = value],
                     node, value, child),
              LAMBDA r : [h |-> r.h, ret |-> At(r.h, r.child)])

\* a choice that always takes the left child
smallerChild_left(h, child, last) == child

\* lines 137-143: the child that holds the smaller value
smallerChild(h, child, last) ==
  IF child < last /\ h.m_node[At(h, child + 1)].value < h.m_node[At(h, child)].value
  THEN child + 1
  ELSE child

RECURSIVE siftDown(_, _, _, _, _)
\* lines 136-154: the hole at parent sinks while the last node is larger
\* than the smaller child
siftDown(h, node, last, parent, child) ==
  IF child <= last
  THEN LET c == smallerChild(h, child, last)
       IN IF h.m_node[node].value <= h.m_node[At(h, c)].value
          THEN [h |-> h, parent |-> parent]
          ELSE Let(Place(h, parent, At(h, c)),
                   LAMBDA h1 : siftDown(h1, node, last, c, 2 * c + 1))
  ELSE [h |-> h, parent |-> parent]

\* MinHeap::erase, lines 124-162: the heap and the key and value it reports
erase(h) ==
  LET root == At(h, 0)
      last == h.m_size - 1
      node == At(h, last)
  IN Let(siftDown([h EXCEPT !.m_size = last], node, last, 0, 1),
         LAMBDA r :
           [h |-> Place(Place(r.h, r.parent, node), last, root),
            key |-> h.m_node[root].key,
            value |-> h.m_node[root].value])

\* MinHeap::minimum, lines 84-90
minimum(h) == [key |-> h.m_node[At(h, 0)].key, value |-> h.m_node[At(h, 0)].value]

\* MinHeap::valid, lines 248-261
valid(h) ==
  \A i \in 0..(h.m_size - 1) :
    LET parent == (i - 1) \div 2
    IN parent > 0 =>
         ~(\/ h.m_node[At(h, i)].value < h.m_node[At(h, parent)].value
           \/ h.m_node[At(h, parent)].index # parent)

\* what the caller has done so far: the accepted inserts and the erases
\* since the last resize, the entries it has put in and not yet taken out,
\* and the last call with what it reported
NoCalls ==
  [inserts |-> 0, erases |-> 0, stored |-> << >>, op |-> "none",
   key |-> 0, value |-> 0, before |-> << >>]

Root == 1

\* the classes the host makes its root of: a Node, or a NodeBase that has
\* the base class's fields only
RootTypes == {TID_Node, TID_NodeBase}

\* the objects a field declared as a pointer to Node may hold
IsNode(o) == heap[o].typeId = TID_Node

Nodes == {o \in Objs : IsNode(o)}

Init ==
  /\ \E tid \in RootTypes :
       heap = [o \in Objs |-> newRTTIObject(IF o = Root THEN tid ELSE TID_Node)]
  /\ edits = 0
  /\ pc = "build"
  /\ shallow = FALSE
  /\ stream = << >>
  /\ m_objectsToEncode = << >>
  /\ m_objectAddrToId = << >>
  /\ m_lastUsedObjectId = 1
  /\ output = MemoryBuffer
  /\ wire = << >>
  /\ serializedObjects = {}
  /\ encodedIds = << >>
  /\ m_decodeObjectMap = << >>
  /\ dataPos = 0
  /\ rootObject = 0
  /\ status = "ok"
  /\ warnings = 0
  /\ callDepth = 0
  /\ rttiCalls = << >>
  /\ allRTTITypes = [id \in AllRTTITypes |-> RTTIType(id, 1)]
  /\ registrations = << RTTIType(TID_NodeBase, 1), RTTIType(TID_Node, 1),
                        RTTIType(TID_Inner, 1) >>
  /\ m_size = 0
  /\ m_node = << >>
  /\ m_ptr = << >>
  /\ heapHistory = NoCalls
  /\ m_data = << >>
  /\ m_maxBits = 0
  /\ m_numBits = 0
  /\ bitHistory = NoBitCalls
  /\ metaData = NoMetaData
  /\ clonedObj = 0
  /\ numNodes = 0
  /\ orgObj = NullInst
  /\ newObj = NullInst
  /\ diff = NullInst
  /\ commands = << >>
  /\ cmdIdx = 0
  /\ destObject = 0
  /\ rttiInstance = << 0, 0 >>
  /\ objectStack = << >>
  /\ rttiInstances = << >>

(***************************************************************************)
(* The host builds its graph through the fields' setters.                  *)
(***************************************************************************)
kVal == << TID_Node, 0 >>
kRef == << TID_Node, 1 >>
kNext == << TID_Node, 2 >>
kRefs == << TID_Node, 3 >>
kInner == << TID_Node, 4 >>
kBlob == << TID_NodeBase, 0 >>
kName == << TID_NodeBase, 1 >>
kTags == << TID_NodeBase, 2 >>
kInners == << TID_NodeBase, 3 >>
kX == << TID_Inner, 0 >>
kP == << TID_Inner, 1 >>

Edit(o, k, v) ==
  /\ pc \in {"build", "snapshot"}
  /\ edits < MaxEdits
  /\ k \in DOMAIN heap[o].f
  /\ heap[o].f[k] # v
  /\ heap' = [heap EXCEPT ![o].f[k] = v]
  /\ edits' = edits + 1
  /\ UNCHANGED << metaData, m_data, m_maxBits, m_numBits, bitHistory, m_size, m_node, m_ptr, heapHistory, allRTTITypes, registrations, pc, codecVars, clonedObj, numNodes, orgObj, newObj, diff,
                  commands, cmdIdx, destObject, rttiInstance, objectStack,
                  rttiInstances >>

SetPlain(o) ==
  \E b \in Bytes :
    \/ Edit(o, kVal, << b >>)
    \/ Edit(o, kName, << b >>)
    \/ Edit(o, kBlob, << b >>)
    \/ Edit(o, kInner, [heap[o].f[kInner] EXCEPT !.f[kX] = << b >>])
    \/ /\ Len(heap[o].f[kTags]) < MaxArr
       /\ Edit(o, kTags, Append(heap[o].f[kTags], << b >>))

SetPtr(o) ==
  \E t \in Nodes :
    \/ Edit(o, kRef, t)
    \/ Edit(o, kNext, t)
    \/ Edit(o, kInner, [heap[o].f[kInner] EXCEPT !.f[kP] = t])

PushElem(o) ==
  \E t \in {0} \cup Nodes :
    \/ /\ IsNode(o)
       /\ Len(heap[o].f[kRefs]) < MaxArr
       /\ Edit(o, kRefs, Append(heap[o].f[kRefs], t))
    \/ /\ Len(heap[o].f[kInners]) < MaxArr
       /\ Edit(o, kInners, Append(heap[o].f[kInners],
                                  [newRTTIObject(TID_Inner) EXCEPT !.f[kP] = t]))

(***************************************************************************)
(* BinarySerializer::encode, one action per record written.                *)
(***************************************************************************)
SetWriter(es) ==
  /\ stream' = es.out
  /\ m_objectsToEncode' = es.queue
  /\ m_objectAddrToId' = es.addrToId
  /\ m_lastUsedObjectId' = es.lastId
  /\ output' = [es.io EXCEPT !.onUB = "crash"]

Writer ==
  [out |-> stream, queue |-> m_objectsToEncode, addrToId |-> m_objectAddrToId,
   lastId |-> m_lastUsedObjectId, io |-> output]

\* where encode() is after an encodeEntry call: gone with the process, out
\* through GE_EXCEPT, or in its loop
AfterEntry(es) ==
  IF es.io.crashed THEN "crashed"
  ELSE IF es.io.buffer = "null" THEN "failed" ELSE "encoding"

EncodeBeginWith(io) ==
  /\ pc = "build"
  /\ \E sh \in BOOLEAN :
       \E es \in {encodeStart(Root, heap[Root], sh, io)} :
          /\ shallow' = sh
          /\ SetWriter(es)
          /\ pc' = AfterEntry(es)
          /\ status' = IF AfterEntry(es) = "failed" THEN "exception" ELSE "ok"
  /\ serializedObjects' = {}
  /\ encodedIds' = << 1 >>
  /\ UNCHANGED << metaData, m_data, m_maxBits, m_numBits, bitHistory, m_size, m_node, m_ptr, heapHistory, allRTTITypes, registrations, clonedObj, diffVars >>
  /\ UNCHANGED << heap, edits, wire, m_decodeObjectMap, dataPos, rootObject,
                  warnings, callDepth, rttiCalls >>

EncodeBegin == EncodeBeginWith(MemoryBuffer)

EncodeNext ==
  /\ pc = "encoding"
  /\ foundObjectToProcess(Writer, serializedObjects)
  /\ \E onUB \in UBOutcomes :
       \E n \in {encodeNext(heap, [Writer EXCEPT !.io.onUB = onUB],
                            serializedObjects, shallow)} :
          /\ SetWriter(n.es)
          /\ serializedObjects' = n.done
          /\ encodedIds' = encodedIds \o SetToSeqOne(n.done \ serializedObjects)
          /\ pc' = AfterEntry(n.es)
          /\ status' = IF AfterEntry(n.es) = "failed" THEN "exception" ELSE status
  /\ UNCHANGED << metaData, m_data, m_maxBits, m_numBits, bitHistory, m_size, m_node, m_ptr, heapHistory, allRTTITypes, registrations, clonedObj, diffVars >>
  /\ UNCHANGED << heap, edits, shallow, wire, m_decodeObjectMap, dataPos,
                  rootObject, warnings, callDepth, rttiCalls >>

EncodeEnd ==
  /\ pc = "encoding"
  /\ ~foundObjectToProcess(Writer, serializedObjects)
  /\ SetWriter(encodeFinish(Writer))
  /\ pc' = "encoded"
  /\ UNCHANGED << metaData, m_data, m_maxBits, m_numBits, bitHistory, m_size, m_node, m_ptr, heapHistory, allRTTITypes, registrations, clonedObj, diffVars >>
  /\ UNCHANGED << heap, edits, shallow, wire, serializedObjects, encodedIds,
                  m_decodeObjectMap, dataPos, rootObject, status, warnings,
                  callDepth, rttiCalls >>

(***************************************************************************)
(* BinarySerializer::decode: phase 1 one record per action, phase 2 one    *)
(* entry of the map per action.                                            *)
(***************************************************************************)
Reader ==
  [heap |-> heap, map |-> m_decodeObjectMap, err |-> status, warn |-> warnings,
   maxDepth |-> callDepth, calls |-> rttiCalls]

SetReader(ds) ==
  /\ heap' = ds.heap
  /\ m_decodeObjectMap' = ds.map
  /\ status' = ds.err
  /\ warnings' = ds.warn
  /\ callDepth' = ds.maxDepth
  /\ rttiCalls' = ds.calls

DecodeBegin ==
  /\ pc \in {"encoded", "received"}
  /\ Len(stream) # 0
  /\ m_decodeObjectMap' = << >>
  /\ dataPos' = 0
  /\ rootObject' = 0
  /\ rttiCalls' = << >>
  /\ pc' = "phase1"
  /\ UNCHANGED << metaData, m_data, m_maxBits, m_numBits, bitHistory, m_size, m_node, m_ptr, heapHistory, allRTTITypes, registrations, clonedObj, diffVars >>
  /\ UNCHANGED << heap, edits, shallow, stream, m_objectsToEncode,
                  m_objectAddrToId, m_lastUsedObjectId, output, wire, serializedObjects,
                  encodedIds, status, warnings, callDepth >>

DecodeScan ==
  /\ pc = "phase1"
  /\ \E r \in {decodeScan(Reader, stream, dataPos)} :
        /\ SetReader(r.ds)
        /\ dataPos' = r.pos
        /\ rootObject' = IF r.ds.err # "ok" THEN 0
                         ELSE IF rootObject = 0 THEN r.object ELSE rootObject
        /\ pc' = IF r.ds.err # "ok" THEN "failed"
                 ELSE IF r.ret THEN "phase1" ELSE "phase2"
  /\ UNCHANGED << metaData, m_data, m_maxBits, m_numBits, bitHistory, m_size, m_node, m_ptr, heapHistory, allRTTITypes, registrations, clonedObj, diffVars >>
  /\ UNCHANGED << edits, shallow, stream, m_objectsToEncode, m_objectAddrToId,
                  m_lastUsedObjectId, output, wire, serializedObjects, encodedIds >>

DecodeObject ==
  /\ pc = "phase2"
  /\ \E i \in DOMAIN m_decodeObjectMap : ~m_decodeObjectMap[i].isDecoded
  /\ \E ds \in {decodeResolve(Reader, stream)} :
        /\ SetReader(ds)
        /\ pc' = IF ds.err # "ok" THEN "failed" ELSE "phase2"
        /\ rootObject' = IF ds.err # "ok" THEN 0 ELSE rootObject
  /\ UNCHANGED << metaData, m_data, m_maxBits, m_numBits, bitHistory, m_size, m_node, m_ptr, heapHistory, allRTTITypes, registrations, clonedObj, diffVars >>
  /\ UNCHANGED << edits, shallow, stream, m_objectsToEncode, m_objectAddrToId,
                  m_lastUsedObjectId, output, wire, serializedObjects, encodedIds, dataPos >>

DecodeEnd ==
  /\ pc = "phase2"
  /\ \A i \in DOMAIN m_decodeObjectMap : m_decodeObjectMap[i].isDecoded
  /\ m_decodeObjectMap' = << >>
  /\ dataPos' = Len(stream)
  /\ pc' = "decoded"
  /\ UNCHANGED << metaData, m_data, m_maxBits, m_numBits, bitHistory, m_size, m_node, m_ptr, heapHistory, allRTTITypes, registrations, clonedObj, diffVars >>
  /\ UNCHANGED << heap, edits, shallow, stream, m_objectsToEncode,
                  m_objectAddrToId, m_lastUsedObjectId, output, wire, serializedObjects,
                  encodedIds, rootObject, status, warnings, callDepth, rttiCalls >>

Build == \E o \in Objs : SetPlain(o) \/ SetPtr(o) \/ PushElem(o)

Next ==
  \/ Build
  \/ EncodeBegin
  \/ EncodeNext
  \/ EncodeEnd
  \/ DecodeBegin
  \/ DecodeScan
  \/ DecodeObject
  \/ DecodeEnd

Spec == Init /\ [][Next]_vars

(***************************************************************************)
(* encode() into a small buffer of the caller, whose callback may refuse.  *)
(***************************************************************************)
\* the callbacks: one that refuses, one that hands back one buffer and then
\* refuses, one that hands back a buffer too small for a metadata word,
\* one that refuses once, one that hands the same buffer back each time and
\* one that hands back a buffer for one metadata word and then larger ones
FlushScripts(len) ==
  { << 0 >>, << len, 0 >>, << TinyBuffer >>, << 0, len >>, << len >>,
    << SmallBuffer, len >> }

FlushBegin ==
  \E len \in BufferLengths, onUB \in UBOutcomes :
    \E answers \in FlushScripts(len) :
      EncodeBeginWith(NewOutput(len, answers, onUB))

FlushNext == Build \/ FlushBegin \/ EncodeNext \/ EncodeEnd

FlushSpec == Init /\ [][FlushNext]_vars

(***************************************************************************)
(* decode() of a stream that this program did not write: the records are   *)
(* those another version of the program, or a damaged file, may hold.      *)
(* A record of the wire is [k, a, b, bytes]: what it is, the id it carries *)
(* (an object id, or the id a pointer holds), the type or field id, and    *)
(* its bytes.                                                              *)
(***************************************************************************)
WObj(id, tid) ==
  [k |-> "obj", a |-> id, b |-> tid,
   bytes |-> encodeObjectMetaData(id, tid, FALSE)]

WBase(id, tid) ==
  [k |-> "base", a |-> id, b |-> tid,
   bytes |-> encodeObjectMetaData(id, tid, TRUE)]

WField(k, a, id, size, array, type, hasDynamicSize, payload) ==
  [k |-> k, a |-> a, b |-> id,
   bytes |-> encodeFieldMetaData(id, size, array, type, hasDynamicSize, FALSE)
             \o payload]

WTerminator == encodeFieldMetaData(0, 0, FALSE, kPlain, FALSE, TRUE)

\* the records of the objects
ObjRecords ==
  { WObj(id, tid) : id \in 1..2, tid \in {TID_Node, TID_Unknown} }

\* the records of the fields the live classes have, as the live classes
\* write them: Node::val, Node::ref, Node::refs and NodeBase::name
KnownRecords ==
  { WField("val", 0, 0, 1, FALSE, kPlain, FALSE, << 1 >>),
    WField("name", 0, 1, 0, FALSE, kPlain, TRUE, U32(5) \o << 1 >>) }
  \cup { WField("ref", id, 1, 0, FALSE, kReflectablePtr, FALSE, U32(id))
           : id \in {2, MissingId} }
  \cup { WField("refs", MissingId, 3, 0, TRUE, kReflectablePtr, FALSE,
                 U32(1) \o U32(MissingId)) }

\* Node::val written with another static size, as an array, as a pointer
MismatchRecords ==
  { WField("valSize", 0, 0, 2, FALSE, kPlain, FALSE, << 1, 1 >>),
    WField("valArray", 0, 0, 1, TRUE, kPlain, FALSE, U32(0)),
    WField("valKind", 0, 0, 1, FALSE, kReflectablePtr, FALSE, U32(0)) }

\* a field id no live class has, in each of the forms a field takes
UnknownRecords ==
  { WField("unkPlain", 0, UnknownField, 1, FALSE, kPlain, FALSE, << 1 >>),
    WField("unkDynamic", 0, UnknownField, 0, FALSE, kPlain, TRUE,
           U32(5) \o << 1 >>),
    WField("unkPtr", 2, UnknownField, 0, FALSE, kReflectablePtr, FALSE, U32(2)),
    WField("unkBlock", 0, UnknownField, 0, FALSE, kDataBlock, FALSE,
           U32(1) \o << 1 >>),
    WField("unkArray", 0, UnknownField, 1, TRUE, kPlain, FALSE,
           U32(1) \o << 1 >>),
    WField("unkObject", 0, UnknownField, 0, FALSE, kReflectable, FALSE,
           encodeObjectMetaData(0, TID_Inner, FALSE)
           \o encodeFieldMetaData(0, 1, FALSE, kPlain, FALSE, FALSE) \o << 1 >>
           \o WTerminator) }

\* the record that opens the base-class part: of NodeBase, or of a base
\* class the live Node does not have
BaseRecords == { WBase(1, TID_NodeBase), WBase(1, TID_Unknown) }

WireRecords ==
  ObjRecords \cup KnownRecords \cup MismatchRecords \cup UnknownRecords
  \cup BaseRecords

\* the next record of the stream arrives
Put ==
  /\ pc \in {"build", "received"}
  /\ edits = 0
  /\ Len(wire) < MaxWire
  /\ \E r \in WireRecords :
       /\ wire = << >> => r.k = "obj"
       /\ wire' = Append(wire, r)
       /\ stream' = stream \o r.bytes
  /\ pc' = "received"
  /\ UNCHANGED << metaData, m_data, m_maxBits, m_numBits, bitHistory, m_size, m_node, m_ptr, heapHistory, allRTTITypes, registrations, heap, edits, shallow, m_objectsToEncode, m_objectAddrToId,
                  m_lastUsedObjectId, output, serializedObjects, encodedIds,
                  m_decodeObjectMap, dataPos, rootObject, status, warnings,
                  callDepth, rttiCalls, clonedObj, diffVars >>

WireNext == Put \/ DecodeBegin \/ DecodeScan \/ DecodeObject \/ DecodeEnd

WireSpec == Init /\ [][WireNext]_vars

(***************************************************************************)
(* BinaryCloner::clone of the root object.                                 *)
(***************************************************************************)
Clone ==
  /\ pc = "build"
  /\ \E sh \in BOOLEAN :
       \E c \in {clone(heap, Root, heap[Root], sh)} :
          /\ shallow' = sh
          /\ heap' = c.heap
          /\ clonedObj' = c.obj
          /\ status' = c.err
          /\ pc' = IF c.err = "ok" THEN "cloned" ELSE "failed"
  /\ UNCHANGED << metaData, m_data, m_maxBits, m_numBits, bitHistory, m_size, m_node, m_ptr, heapHistory, allRTTITypes, registrations, edits, stream, m_objectsToEncode, m_objectAddrToId,
                  m_lastUsedObjectId, output, wire, serializedObjects, encodedIds,
                  m_decodeObjectMap, dataPos, rootObject, warnings, callDepth, rttiCalls,
                  diffVars >>

CloneNext == Build \/ Clone

CloneSpec == Init /\ [][CloneNext]_vars

(***************************************************************************)
(* The tree path: SerializedObject::create of the root and                 *)
(* SerializedObject::decode of the tree.                                   *)
(***************************************************************************)
TreeCreate ==
  /\ pc = "build"
  /\ \E sh \in BOOLEAN :
       \E r \in {SerializedObject_create(numNodes + 1, heap, Root, sh)} :
          /\ shallow' = sh
          /\ orgObj' = r.inst
          /\ numNodes' = r.tc.next - 1
          /\ status' = r.tc.err
          /\ pc' = IF r.tc.err = "ok" THEN "tree" ELSE "failed"
  /\ UNCHANGED << metaData, m_data, m_maxBits, m_numBits, bitHistory, m_size, m_node, m_ptr, heapHistory, allRTTITypes, registrations, heap, edits, stream,
                  m_objectsToEncode, m_objectAddrToId, m_lastUsedObjectId,
                  output, wire, serializedObjects, encodedIds,
                  m_decodeObjectMap, dataPos, rootObject, warnings, callDepth,
                  rttiCalls, clonedObj, newObj, diff, commands, cmdIdx,
                  destObject, rttiInstance, objectStack, rttiInstances >>

TreeDecode ==
  /\ pc = "tree"
  /\ \E onRehash \in RehashOutcomes :
       \E r \in {SerializedObject_decode(heap, orgObj, onRehash)} :
          /\ heap' = r.heap
          /\ rootObject' = r.output
          /\ warnings' = r.warn
  /\ pc' = "treeDecoded"
  /\ UNCHANGED << metaData, m_data, m_maxBits, m_numBits, bitHistory, m_size, m_node, m_ptr, heapHistory, allRTTITypes, registrations, edits, shallow, stream,
                  m_objectsToEncode, m_objectAddrToId, m_lastUsedObjectId,
                  output, wire, serializedObjects, encodedIds,
                  m_decodeObjectMap, dataPos, status, callDepth, rttiCalls,
                  clonedObj, diffVars >>

TreeNext == Build \/ TreeCreate \/ TreeDecode

TreeSpec == Init /\ [][TreeNext]_vars

(***************************************************************************)
(* The diff engine.  The host clones the root deeply, captures the tree    *)
(* of the original, mutates the graph, diffs the two trees and applies     *)
(* the diff to the clone.                                                  *)
(***************************************************************************)
\* SerializedObject::create(original)
Snapshot ==
  /\ pc = "cloned"
  /\ ~shallow
  /\ \E r \in {SerializedObject_create(numNodes + 1, heap, Root, FALSE)} :
        /\ orgObj' = r.inst
        /\ numNodes' = r.tc.next - 1
        /\ status' = r.tc.err
        /\ pc' = IF r.tc.err = "ok" THEN "snapshot" ELSE "failed"
  /\ UNCHANGED << metaData, m_data, m_maxBits, m_numBits, bitHistory, m_size, m_node, m_ptr, heapHistory, allRTTITypes, registrations, heap, edits, shallow, stream, m_objectsToEncode,
                  m_objectAddrToId, m_lastUsedObjectId, output, wire, serializedObjects,
                  encodedIds, m_decodeObjectMap, dataPos, rootObject, warnings,
                  callDepth, rttiCalls, clonedObj, newObj, diff, commands,
                  cmdIdx, destObject, rttiInstance, objectStack,
                  rttiInstances >>

\* SerializedObject::create(modified) and IDiff::generateDiff; self: the
\* tree of the original is diffed against itself
GenerateDiff ==
  /\ pc = "snapshot"
  /\ \E self \in BOOLEAN :
       \E t \in {IF self THEN [tc |-> [next |-> numNodes + 1, err |-> "ok"],
                                inst |-> orgObj]
                  ELSE SerializedObject_create(numNodes + 1, heap, Root, FALSE)} :
         \E g \in {IF t.tc.err = "ok" THEN generateDiff(t.tc.next, orgObj, t.inst)
                    ELSE [gc |-> t.tc, mod |-> NullInst]} :
             /\ newObj' = t.inst
             /\ diff' = g.mod
             /\ numNodes' = g.gc.next - 1
             /\ status' = g.gc.err
             /\ pc' = IF g.gc.err = "ok" THEN "diffed" ELSE "failed"
  /\ UNCHANGED << metaData, m_data, m_maxBits, m_numBits, bitHistory, m_size, m_node, m_ptr, heapHistory, allRTTITypes, registrations, heap, edits, shallow, stream, m_objectsToEncode,
                  m_objectAddrToId, m_lastUsedObjectId, output, wire, serializedObjects,
                  encodedIds, m_decodeObjectMap, dataPos, rootObject, warnings,
                  callDepth, rttiCalls, clonedObj, orgObj, commands, cmdIdx,
                  destObject, rttiInstance, objectStack, rttiInstances >>

\* IDiff::applyDiff(clone, diff), lines 160-172: the command list is built
ApplyDiff ==
  /\ pc = "diffed"
  /\ \E r \in {BinaryDiff_applyDiff([heap |-> heap, objectMap |-> << >>,
                                       cmds |-> << >>, err |-> "ok"],
                                      clonedObj, diff)} :
        /\ heap' = r.heap
        /\ commands' = r.cmds
        /\ status' = r.err
        /\ pc' = IF r.err = "ok" THEN "applying" ELSE "failed"
  /\ cmdIdx' = 0
  /\ destObject' = 0
  /\ rttiInstance' = << 0, 0 >>
  /\ objectStack' = << >>
  /\ rttiInstances' = << >>
  /\ UNCHANGED << metaData, m_data, m_maxBits, m_numBits, bitHistory, m_size, m_node, m_ptr, heapHistory, allRTTITypes, registrations, edits, shallow, stream, m_objectsToEncode, m_objectAddrToId,
                  m_lastUsedObjectId, output, wire, serializedObjects, encodedIds,
                  m_decodeObjectMap, dataPos, rootObject, warnings, callDepth, rttiCalls,
                  clonedObj, numNodes, orgObj, newObj, diff >>

\* the instances kObjectEnd destroys: the trailing entries of rttiInstances
\* that belong to destObject
RECURSIVE trailing(_, _)
trailing(insts, obj) ==
  IF Len(insts) = 0 \/ insts[Len(insts)][2] # obj THEN 0
  ELSE 1 + trailing(SubSeq(insts, 1, Len(insts) - 1), obj)

\* the field setter a command runs on destObject
runSetter(h, dest, command) ==
  LET rtti == command.field[1]
      fd == FieldOfKey(command.field)
      i == command.arrayIdx + 1
  IN CASE command.type = kArraySize ->
            SetArraySize(h, dest, rtti, fd, command.arraySize)
       [] command.type = kReflectablePtr /\ command.isArray ->
            SetArrayValue(h, dest, rtti, fd, i, command.object)
       [] command.type = kReflectablePtr /\ ~command.isArray ->
            SetField(h, dest, rtti, fd, command.object)
       [] command.type = kReflectable /\ command.isArray ->
            SetArrayValue(h, dest, rtti, fd, i, h[command.object])
       [] command.type = kReflectable /\ ~command.isArray ->
            SetField(h, dest, rtti, fd, h[command.object])
       [] command.type = kPlain /\ command.isArray ->
            SetArrayValue(h, dest, rtti, fd, i, fromBuffer(fd, command.value))
       [] command.type = kPlain /\ ~command.isArray ->
            SetField(h, dest, rtti, fd, fromBuffer(fd, command.value))
       [] command.type = kDataBlock ->
            SetField(h, dest, rtti, fd, command.value)

\* a setter may run: there is a destination object, a live rtti instance,
\* the element exists and an embedded source is not null
setterDefined(command) ==
  /\ destObject # 0
  /\ \E k \in 1..Len(rttiInstances) : rttiInstances[k] = rttiInstance
  /\ (command.isArray /\ command.type # kArraySize) =>
       command.arrayIdx < Len(heap[destObject].f[command.field])
  /\ command.type = kReflectable => command.object # 0

\* lines 174-309: one command of the list.  A setter that runs without a
\* destination object is undefined: the process is killed, or it writes
\* through a wild address and nothing more can be said of its state.
ExecCommand ==
  /\ pc = "applying"
  /\ cmdIdx < Len(commands)
  /\ cmdIdx' = cmdIdx + 1
  /\ LET command == commands[cmdIdx + 1]
     IN CASE command.type = kObjectStart ->
               IF command.object = 0
               THEN /\ pc' = "crashed"
                    /\ UNCHANGED << heap, destObject, rttiInstance, objectStack,
                                    rttiInstances >>
               ELSE LET chain == Chain(heap[command.object].typeId)
                        n == Len(chain)
                    IN /\ destObject' = command.object
                       /\ objectStack' = Append(objectStack, command.object)
                       /\ rttiInstances' = rttiInstances \o
                            [k \in 1..n |-> << chain[n + 1 - k], command.object >>]
                       /\ rttiInstance' = << chain[1], command.object >>
                       /\ UNCHANGED << heap, pc >>
          [] command.type = kSubObjectStart ->
               /\ rttiInstance' =
                    IF \E k \in 1..trailing(rttiInstances, destObject) :
                         rttiInstances[Len(rttiInstances) + 1 - k][1] = command.field[1]
                    THEN << command.field[1], destObject >>
                    ELSE << 0, 0 >>
               /\ UNCHANGED << heap, pc, destObject, objectStack, rttiInstances >>
          [] command.type = kObjectEnd ->
               LET n == trailing(rttiInstances, destObject)
                   m == Len(rttiInstances)
               IN IF Len(objectStack) = 0
                  THEN /\ pc' = "crashed"
                       /\ UNCHANGED << heap, destObject, rttiInstance,
                                       objectStack, rttiInstances >>
                  ELSE /\ rttiInstances' = SubSeq(rttiInstances, 1, m - n)
                       /\ rttiInstance' = IF n = 0 THEN rttiInstance
                                          ELSE rttiInstances[m - n + 1]
                       /\ objectStack' = SubSeq(objectStack, 1, Len(objectStack) - 1)
                       /\ destObject' = IF Len(objectStack) > 1
                                        THEN objectStack[Len(objectStack) - 1]
                                        ELSE 0
                       /\ UNCHANGED << heap, pc >>
          [] OTHER ->
               /\ IF setterDefined(command)
                  THEN /\ heap' = runSetter(heap, destObject, command)
                       /\ pc' = pc
                  ELSE /\ heap' = heap
                       /\ pc' \in {"crashed", "corrupted"}
               /\ UNCHANGED << destObject, rttiInstance, objectStack,
                               rttiInstances >>
  /\ UNCHANGED << metaData, m_data, m_maxBits, m_numBits, bitHistory, m_size, m_node, m_ptr, heapHistory, allRTTITypes, registrations >>
  /\ UNCHANGED << edits, shallow, stream, m_objectsToEncode, m_objectAddrToId,
                  m_lastUsedObjectId, output, wire, serializedObjects, encodedIds,
                  m_decodeObjectMap, dataPos, rootObject, status, warnings,
                  callDepth, rttiCalls, clonedObj, numNodes, orgObj, newObj, diff,
                  commands >>

\* line 311: the command list is exhausted and applyDiff returns
ApplyEnd ==
  /\ pc = "applying"
  /\ cmdIdx = Len(commands)
  /\ pc' = "applied"
  /\ UNCHANGED << metaData, m_data, m_maxBits, m_numBits, bitHistory, m_size, m_node, m_ptr, heapHistory, allRTTITypes, registrations, heap, edits, shallow, stream, m_objectsToEncode,
                  m_objectAddrToId, m_lastUsedObjectId, output, wire, serializedObjects,
                  encodedIds, m_decodeObjectMap, dataPos, rootObject, status,
                  warnings, callDepth, rttiCalls, clonedObj, diffVars >>

\* the host takes back what the snapshot has seen: it drops the last
\* element of an array or sets a reference to null
Trim ==
  /\ pc = "snapshot"
  /\ \E o \in Objs :
       \/ \E k \in {kRefs, kTags, kInners} :
            /\ k \in DOMAIN heap[o].f
            /\ Len(heap[o].f[k]) > 0
            /\ Edit(o, k, SubSeq(heap[o].f[k], 1, Len(heap[o].f[k]) - 1))
       \/ \E k \in {kRef, kNext} : Edit(o, k, 0)

DiffNext ==
  \/ Build
  \/ Trim
  \/ Clone
  \/ Snapshot
  \/ GenerateDiff
  \/ ApplyDiff
  \/ ExecCommand
  \/ ApplyEnd

DiffSpec == Init /\ [][DiffNext]_vars



(***************************************************************************)
(* Comparing object graphs.                                                *)
(***************************************************************************)
RECURSIVE Shape(_)
\* an object's own values, with every reference reduced to null / non-null
Shape(x) ==
  [typeId |-> x.typeId,
   f |-> [k \in DOMAIN x.f |->
            LET fd == FieldOfKey(k)
                v == x.f[k]
            IN CASE fd.m_type = kReflectablePtr /\ fd.m_isVectorType ->
                      [i \in 1..Len(v) |-> v[i] # 0]
                 [] fd.m_type = kReflectablePtr /\ ~fd.m_isVectorType -> v # 0
                 [] fd.m_type = kReflectable /\ fd.m_isVectorType ->
                      [i \in 1..Len(v) |-> Shape(v[i])]
                 [] fd.m_type = kReflectable /\ ~fd.m_isVectorType -> Shape(v)
                 [] OTHER -> v]]

RECURSIVE PtrAt(_)
\* every reference slot of an object as << path, address >>, embedded
\* values included; a path is a sequence of type ids, field ids and indices
PtrAt(x) ==
  UNION { LET fd == FieldOfKey(k)
              v == x.f[k]
          IN CASE fd.m_type = kReflectablePtr /\ fd.m_isVectorType ->
                    { << << k[1], k[2], i >>, v[i] >> : i \in 1..Len(v) }
               [] fd.m_type = kReflectablePtr /\ ~fd.m_isVectorType ->
                    { << << k[1], k[2] >>, v >> }
               [] fd.m_type = kReflectable /\ fd.m_isVectorType ->
                    UNION { { << << k[1], k[2], i >> \o q[1], q[2] >> :
                                q \in PtrAt(v[i]) } : i \in 1..Len(v) }
               [] fd.m_type = kReflectable /\ ~fd.m_isVectorType ->
                    { << << k[1], k[2] >> \o q[1], q[2] >> : q \in PtrAt(v) }
               [] OTHER -> {}
        : k \in DOMAIN x.f }

\* the objects an object references
Targets(x) == { q[2] : q \in PtrAt(x) } \ {0}

RECURSIVE ReachFrom(_, _, _)
ReachFrom(h, todo, seen) ==
  IF todo = {} THEN seen
  ELSE Let(CHOOSE t \in todo : TRUE,
           LAMBDA a :
             Let(<< (todo \ {a}) \cup (Targets(h[a]) \ (seen \cup {a})),
                    seen \cup {a} >>,
                 LAMBDA n : ReachFrom(h, n[1], n[2])))

\* the objects of the graph under a, a included
Reach(h, a) == IF a = 0 THEN {} ELSE ReachFrom(h, {a}, {})

\* pairs of objects that sit at the same place in two objects
PtrPairs(x, y) ==
  { << p[2], q[2] >> : << p, q >> \in
      { pq \in PtrAt(x) \X PtrAt(y) :
          pq[1][1] = pq[2][1] /\ pq[1][2] # 0 /\ pq[2][2] # 0 } }

RECURSIVE Correspond(_, _, _)
Correspond(h, todo, seen) ==
  IF todo = {} THEN seen
  ELSE Let(CHOOSE t \in todo : TRUE,
           LAMBDA p :
             Let(<< (todo \ {p})
                      \cup (PtrPairs(h[p[1]], h[p[2]]) \ (seen \cup {p})),
                    seen \cup {p} >>,
                 LAMBDA n : Correspond(h, n[1], n[2])))

\* the graph under b is a copy of the graph under a: equal values, equal
\* array lengths, equal null pattern and the same aliasing of references
GraphEqual(h, a, b) ==
  /\ a # 0
  /\ b # 0
  /\ LET c == Correspond(h, {<< a, b >>}, {})
     IN /\ \A p \in c : Shape(h[p[1]]) = Shape(h[p[2]])
        /\ \A p, q \in c : (p[1] = q[1]) <=> (p[2] = q[2])

\* no object of the graph under a is reachable from itself
RECURSIVE DescFrom(_, _, _)
DescFrom(h, todo, seen) ==
  IF todo = {} THEN seen
  ELSE Let(Targets(h[CHOOSE t \in todo : TRUE]),
           LAMBDA ts :
             Let(<< (todo \ {CHOOSE t \in todo : TRUE}) \cup (ts \ seen),
                    seen \cup ts >>,
                 LAMBDA n : DescFrom(h, n[1], n[2])))

Acyclic(h, a) == \A o \in Reach(h, a) : o \notin DescFrom(h, {o}, {})

(***************************************************************************)
(* The binary codec: properties of encode followed by decode.              *)
(***************************************************************************)
Range(q) == { q[i] : i \in 1..Len(q) }

\* every object pair that corresponds in the original and in the decoded graph
Decoded == Correspond(heap, {<< Root, rootObject >>}, {})

\* C1: for every acyclic graph, decode of the bytes of a deep encode
\* succeeds and returns a graph with the same Plain and DataBlock bytes,
\* array lengths, embedded values, null pattern and aliasing of references.
C1_RoundTrip ==
  (pc = "decoded" /\ ~shallow /\ Acyclic(heap, Root))
    => /\ status = "ok"
       /\ GraphEqual(heap, Root, rootObject)

\* a decoded graph of two objects with a dynamic-size value, a data block
\* and one of everything else left at its default
C1_Witness ==
  /\ pc = "decoded"
  /\ ~shallow
  /\ Acyclic(heap, Root)
  /\ IsNode(Root)
  /\ heap[Root].f[kRef] = 2
  /\ heap[2].f[kName] # << >>

\* C2: an object referenced from several ReflectablePtr slots has one
\* persistent id during encode, and after decode all the corresponding
\* slots hold one and the same new instance.
C2_ReferenceDedup ==
  /\ pc = "encoding" =>
       \A a, b \in DOMAIN m_objectAddrToId :
         m_objectAddrToId[a] = m_objectAddrToId[b] => a = b
  /\ (pc = "decoded" /\ ~shallow) =>
       /\ Len(heap) = NumObjs + Cardinality(Reach(heap, Root))
       /\ \A p, q \in Decoded :
            p[1] = q[1] => (p[2] = q[2] /\ p[2] > NumObjs)

\* object 2 is referenced from a field of the root, from an array element
\* of the root and the decode is over
C2_Witness ==
  /\ pc = "decoded"
  /\ ~shallow
  /\ IsNode(Root)
  /\ heap[Root].f[kRef] = 2
  /\ heap[Root].f[kRefs] = << 2 >>

\* the graph A -> B -> A: the root references object 2 through ref, object
\* 2 references the root through its weak field next, nothing else is set
CycleABA ==
  /\ heap[Root] = [newRTTIObject(TID_Node) EXCEPT !.f[kRef] = 2]
  /\ heap[2] = [newRTTIObject(TID_Node) EXCEPT !.f[kNext] = Root]

\* C9: decoding the encoding of A -> B -> A creates exactly two instances;
\* the decoded A references the decoded B, and the decoded B's weak field
\* holds the very instance decode returns as the root.
C9_CycleResult ==
  (pc = "decoded" /\ ~shallow /\ CycleABA)
    => /\ status = "ok"
       /\ Len(heap) = NumObjs + 2
       /\ rootObject > NumObjs
       /\ heap[rootObject].f[kRef] > NumObjs
       /\ heap[rootObject].f[kRef] # rootObject
       /\ heap[heap[rootObject].f[kRef]].f[kNext] = rootObject
       /\ heap[heap[rootObject].f[kRef]].f[kRef] = 0
       /\ heap[rootObject].f[kNext] = 0

C9_Witness == pc = "decoded" /\ ~shallow /\ CycleABA

\* C10: in a deep encode the root has id 1, every other object has a
\* unique larger id, no id is written as a record twice, and once the
\* queue has no object left every reachable object has been written as
\* exactly one record; when encode has returned the queue is empty.
C10_EncodeOnce ==
  /\ (pc = "encoding" /\ ~shallow) =>
       /\ Root \in DOMAIN m_objectAddrToId
       /\ m_objectAddrToId[Root] = 1
       /\ \A a \in DOMAIN m_objectAddrToId :
            /\ a # Root => m_objectAddrToId[a] > 1
            /\ m_objectAddrToId[a] < m_lastUsedObjectId
            /\ \A b \in DOMAIN m_objectAddrToId :
                 m_objectAddrToId[a] = m_objectAddrToId[b] => a = b
       /\ DOMAIN m_objectAddrToId \subseteq Reach(heap, Root)
       /\ Cardinality(Range(encodedIds)) = Len(encodedIds)
       /\ Range(encodedIds) \subseteq
            { m_objectAddrToId[a] : a \in DOMAIN m_objectAddrToId }
       /\ ~foundObjectToProcess(Writer, serializedObjects) =>
            /\ DOMAIN m_objectAddrToId = Reach(heap, Root)
            /\ Len(encodedIds) = Cardinality(Reach(heap, Root))
  /\ (pc = "encoded" /\ ~shallow) =>
       /\ m_objectsToEncode = << >>
       /\ Len(encodedIds) = Cardinality(Reach(heap, Root))

\* an encode that has returned for a graph in which object 2 points back
\* to the root through a non-weak field
C10_Witness ==
  /\ pc = "encoded"
  /\ ~shallow
  /\ IsNode(Root)
  /\ heap[Root].f[kRef] = 2
  /\ heap[2].f[kRef] = Root
  /\ encodedIds = << 1, 2 >>

(***************************************************************************)
(* Termination of the codec.  encode() and decode() are synchronous: once  *)
(* called they run their loops to the end, and the host decodes what it    *)
(* has encoded.                                                            *)
(***************************************************************************)
\* the host only links its objects through ref, next and the reference of
\* the embedded value
Link == \E o \in Objs : SetPtr(o)

CycleNext ==
  \/ Link
  \/ EncodeBegin
  \/ EncodeNext
  \/ EncodeEnd
  \/ DecodeBegin
  \/ DecodeScan
  \/ DecodeObject
  \/ DecodeEnd

FairSpec ==
  /\ Init
  /\ [][CycleNext]_vars
  /\ WF_vars(EncodeNext)
  /\ WF_vars(EncodeEnd)
  /\ WF_vars(DecodeBegin)
  /\ WF_vars(DecodeScan)
  /\ WF_vars(DecodeObject)
  /\ WF_vars(DecodeEnd)

\* the objects an object references through fields that are not weak
StrongTargets(x) == { q[2] : q \in { r \in PtrAt(x) : r[1] # kNext } } \ {0}

RECURSIVE StrongDescFrom(_, _, _)
StrongDescFrom(h, todo, seen) ==
  IF todo = {} THEN seen
  ELSE Let(StrongTargets(h[CHOOSE t \in todo : TRUE]),
           LAMBDA ts :
             Let(<< (todo \ {CHOOSE t \in todo : TRUE}) \cup (ts \ seen),
                    seen \cup ts >>,
                 LAMBDA n : StrongDescFrom(h, n[1], n[2])))

\* the graph under the root has a cycle, and every cycle passes through a
\* weak field
WeakCycle ==
  /\ ~Acyclic(heap, Root)
  /\ \A o \in Reach(heap, Root) : o \notin StrongDescFrom(heap, {o}, {})

\* the deepest nesting of decodeEntry calls a graph of NumObjs objects, each
\* with one level of embedded objects, can need
DepthBound == 2 * NumObjs + 1

\* C8: a deep encode of a graph whose cycles all pass through a weak
\* reference is always followed by the end of its decode: the queue drains,
\* both phases of decode end, and decodeEntry never nests deeper than the
\* graph is large.
C8_CycleTerminates ==
  /\ [](callDepth <= DepthBound /\ status # "overflow")
  /\ (pc = "encoding" /\ ~shallow /\ WeakCycle)
       ~> (pc = "decoded" /\ status = "ok")

\* the decode of A -> B -> A, B's back reference weak, has ended
C8_Witness ==
  /\ pc = "decoded"
  /\ ~shallow
  /\ WeakCycle
  /\ IsNode(Root)
  /\ heap[Root].f[kRef] = 2
  /\ heap[2].f[kNext] = Root

(***************************************************************************)
(* The cloner.                                                             *)
(***************************************************************************)
\* C6: a shallow clone is one new object; every reference slot of it, the
\* slots of its arrays and of its embedded values included, holds the very
\* object the original's slot holds, and its other values are equal.
C6_ShallowClone ==
  (pc = "cloned" /\ shallow)
    => /\ clonedObj > NumObjs
       /\ Len(heap) = NumObjs + 1
       /\ PtrAt(heap[clonedObj]) = PtrAt(heap[Root])
       /\ Shape(heap[clonedObj]) = Shape(heap[Root])

\* the root has a reference inside an embedded value and one in an array
C6_Witness ==
  /\ pc = "cloned"
  /\ shallow
  /\ IsNode(Root)
  /\ heap[Root].f[kInner].f[kP] = 2
  /\ heap[Root].f[kRefs] = << 2 >>

\* C7: a deep clone is a graph of new objects only, none of the original's
\* objects is reachable from it, and it is structurally equal to the
\* original.
C7_DeepClone ==
  (pc = "cloned" /\ ~shallow)
    => /\ Reach(heap, clonedObj) \cap Objs = {}
       /\ Reach(heap, clonedObj) \cap Reach(heap, Root) = {}
       /\ GraphEqual(heap, Root, clonedObj)

\* the root references object 2, which carries a value of its own
C7_Witness ==
  /\ pc = "cloned"
  /\ ~shallow
  /\ IsNode(Root)
  /\ heap[Root].f[kRef] = 2
  /\ heap[2].f[kVal] = << 1 >>

(***************************************************************************)
(* The diff engine.                                                        *)
(***************************************************************************)
RECURSIVE Strip(_)
\* a tree without the identities of its nodes
Strip(t) ==
  CASE t.kind = "object" ->
         [kind |-> "object",
          subObjects |-> [k \in 1..Len(t.subObjects) |->
             [typeId |-> t.subObjects[k].typeId,
              entries |-> [e \in DOMAIN t.subObjects[k].entries |->
                             Strip(t.subObjects[k].entries[e])]]]]
    [] t.kind = "array" ->
         [kind |-> "array", numElements |-> t.numElements,
          entries |-> [e \in DOMAIN t.entries |-> Strip(t.entries[e])]]
    [] OTHER -> t

\* the entry of a diff for the field key, null when there is none
DiffEntry(d, key) ==
  IF d.kind # "object" THEN NullInst
  ELSE LET S == { k \in 1..Len(d.subObjects) :
                    /\ d.subObjects[k].typeId = key[1]
                    /\ key[2] \in DOMAIN d.subObjects[k].entries }
       IN IF S = {} THEN NullInst
          ELSE d.subObjects[CHOOSE k \in S : TRUE].entries[key[2]]

\* IDiff::applyDiff has returned or has died
ApplyOver == pc \in {"applied", "crashed", "corrupted"}

\* the diff in hand is the diff of the snapshot against the tree of the
\* graph as it is now
DiffOfNow == newObj.kind = "object" /\ newObj.nid # orgObj.nid

\* C3: applying the diff of an acyclic original against an acyclic modified
\* graph to a deep clone of the original leaves the clone equal to the
\* modified graph.
C3_DiffPatch ==
  (ApplyOver /\ DiffOfNow /\ Acyclic(heap, Root))
    => /\ pc = "applied"
       /\ GraphEqual(heap, Root, clonedObj)

\* C4: the diff of a tree against itself or against a field-identical
\* tree is null.
C4_DiffEmpty ==
  (/\ pc \in {"diffed", "failed"}
   /\ orgObj.kind = "object"
   /\ newObj.kind = "object"
   /\ status # "overflow"
   /\ Strip(newObj) = Strip(orgObj))
    => /\ status = "ok"
       /\ diff.kind = "null"

\* the modified root references one object from both ref and next, what
\* ref leads to differs from what it led to in the original, and the diff
\* has an entry for each of the two fields
SharedInNew ==
  /\ DiffOfNow
  /\ IsNode(Root)
  /\ heap[Root].f[kRef] # 0
  /\ heap[Root].f[kRef] = heap[Root].f[kNext]
  /\ Strip(DiffEntry(orgObj, kRef)) # Strip(DiffEntry(newObj, kRef))
  /\ DiffEntry(diff, kRef).kind = "object"
  /\ DiffEntry(diff, kNext).kind = "object"

\* C5: when two fields of the modified graph reference one shared object
\* that differs from the original, the diff links one node from both
\* entries and applyDiff leaves one instance in both fields of the target.
C5_SharedDiffOnce ==
  /\ (pc = "diffed" /\ SharedInNew)
       => DiffEntry(diff, kRef).nid = DiffEntry(diff, kNext).nid
  /\ (ApplyOver /\ SharedInNew)
       => /\ pc = "applied"
          /\ heap[clonedObj].f[kRef] # 0
          /\ heap[clonedObj].f[kRef] = heap[clonedObj].f[kNext]

(***************************************************************************)
(* Errors of the codec.                                                    *)
(***************************************************************************)
\* C11: when a write finds the buffer full and the flush callback answers
\* with nullptr or with a buffer too small for the write, encode copies no
\* further byte, encodes no further object and ends in an exception that
\* reaches its caller.
C11_FlushAbort ==
  output.failedAt >= 0 =>
    /\ pc = "failed"
    /\ status = "exception"
    /\ Len(stream) = output.failedAt
    /\ output.wild = 0

(***************************************************************************)
(* Reading the wire: which record belongs to which object and to which     *)
(* class of its hierarchy.                                                 *)
(***************************************************************************)
WireIdx == 1..Len(wire)

IsObj(i) == wire[i].k = "obj"

IsField(i) == wire[i].k \notin {"obj", "base"}

\* the object record that the record i is part of
Owner(i) == CHOOSE j \in 1..i : IsObj(j) /\ \A m \in (j + 1)..i : ~IsObj(m)

HasRecord(id) == \E j \in WireIdx : IsObj(j) /\ wire[j].a = id

\* the first record that carries the object id
FirstOf(id) ==
  CHOOSE j \in WireIdx :
    /\ IsObj(j) /\ wire[j].a = id
    /\ \A m \in 1..(j - 1) : ~(IsObj(m) /\ wire[m].a = id)

DistinctIds ==
  \A i, j \in WireIdx : (IsObj(i) /\ IsObj(j) /\ wire[i].a = wire[j].a) => i = j

\* no later record of the same object writes the same field
LastOf(i) ==
  \A m \in (i + 1)..Len(wire) :
    (~IsObj(m) /\ Owner(m) = Owner(i)) => wire[m].k # wire[i].k

\* the class whose fields the records from j on describe when they are read
\* into an object of class rtti, seen from record i (0: none, they are
\* skipped)
RECURSIVE LevelFrom(_, _, _)
LevelFrom(j, i, rtti) ==
  IF j >= i THEN rtti
  ELSE IF wire[j].k = "base"
  THEN LevelFrom(j + 1, i,
                 IF rtti # 0 /\ getBaseClass(rtti) # 0
                    /\ getBaseClass(rtti) = wire[j].b
                 THEN getBaseClass(rtti) ELSE 0)
  ELSE LevelFrom(j + 1, i, rtti)

LevelAt(i) == LevelFrom(Owner(i) + 1, i, getRTTIfromTypeId(wire[Owner(i)].b))

\* the field of the live class that the field record i names, if any
Live(i) == IF LevelAt(i) = 0 THEN << >> ELSE findField(LevelAt(i), wire[i].b)

FieldMeta(i) == decodeFieldMetaData(Word(wire[i].bytes, 0))

\* every object of the stream has been decoded
Settled ==
  /\ pc = "phase2"
  /\ \A id \in DOMAIN m_decodeObjectMap : m_decodeObjectMap[id].isDecoded

\* the instance made for the object record j
ObjAt(j) == m_decodeObjectMap[wire[j].a].object

\* records that a Node of the running program writes for itself
SoundRecords ==
  { WObj(id, TID_Node) : id \in 1..2 }
  \cup { r \in KnownRecords : r.k \in {"val", "ref", "refs"} }

\* a stream of Node records in which a pointer holds an id without a record
MissingReference ==
  /\ DistinctIds
  /\ \A i \in WireIdx : wire[i] \in SoundRecords
  /\ \E i \in WireIdx : wire[i].k \in {"ref", "refs"} /\ ~HasRecord(wire[i].a)

\* C12: a ReflectablePtr field or array element whose id has no record in
\* the stream is set to null, decode does not abort, and the other fields
\* and objects of the stream are decoded.
C12_MissingReference ==
  MissingReference =>
    /\ pc # "failed"
    /\ status = "ok"
    /\ Settled =>
         \A i \in WireIdx :
           (IsField(i) /\ LastOf(i)) =>
             LET o == heap[ObjAt(Owner(i))]
             IN CASE wire[i].k = "val" -> o.f[kVal] = << 1 >>
                  [] wire[i].k = "ref" ->
                       o.f[kRef] = IF HasRecord(wire[i].a)
                                   THEN ObjAt(FirstOf(wire[i].a)) ELSE 0
                  [] OTHER -> o.f[kRefs] = << 0 >>

C12_Witness ==
  /\ Settled
  /\ MissingReference
  /\ warnings > 0
  /\ \E i, j \in WireIdx :
       /\ i < j
       /\ wire[i].k = "ref" /\ wire[i].a = MissingId
       /\ wire[j].k = "val"
       /\ heap[ObjAt(Owner(j))].f[kVal] = << 1 >>
       /\ heap[ObjAt(Owner(i))].f[kRef] = 0

\* the field record i is read into an instance of a live class that has a
\* field of its id, and differs from that field in static size, in being
\* an array, or in kind
SchemaMismatch(i) ==
  /\ IsField(i)
  /\ Owner(i) = FirstOf(wire[Owner(i)].a)
  /\ Live(i) # << >>
  /\ \/ (~FieldMeta(i).hasDynamicSize /\ Live(i)[1].typeSize # FieldMeta(i).size)
     \/ Live(i)[1].m_isVectorType # FieldMeta(i).array
     \/ Live(i)[1].m_type # FieldMeta(i).type

C14_UnknownTypeFatal ==
  (\E j \in WireIdx : IsObj(j) /\ wire[j].b = TID_Unknown) =>
    /\ ~Settled
    /\ pc # "decoded"
    /\ pc = "failed" => (status = "exception" /\ rootObject = 0)

\* C15: two top-level object records with one persistent id end decode in
\* an exception; neither record is kept silently.
C15_IdCollisionFatal ==
  ~DistinctIds =>
    /\ ~Settled
    /\ pc # "decoded"
    /\ pc = "failed" => (status = "exception" /\ rootObject = 0)

\* the record i is one the live classes do not know: a field record that
\* names no field of the class it is read into, or a base-class record
\* after which no live class is left
Foreign(i) ==
  \/ IsField(i) /\ Live(i) = << >>
  \/ wire[i].k = "base" /\ LevelFrom(Owner(i) + 1, i + 1,
                                     getRTTIfromTypeId(wire[Owner(i)].b)) = 0

\* the bytes of the records from i on that are not foreign
RECURSIVE KnownBytes(_)
KnownBytes(i) ==
  IF i > Len(wire) THEN << >>
  ELSE (IF Foreign(i) THEN << >> ELSE wire[i].bytes) \o KnownBytes(i + 1)

\* the objects the host held before decode made its instances
HostHeap == SubSeq(heap, 1, NumObjs)

\* C16: field records whose id the live class lacks, and the records that
\* follow a base-class record of another base class, are consumed by their
\* own length and change nothing: decode ends as it ends on the stream
\* without those records, with the same instances, the same field values
\* and the same root.
C16_SchemaEvolution ==
  ((\E i \in WireIdx : Foreign(i)) /\ pc \in {"decoded", "failed"}) =>
    LET r == decode(HostHeap, KnownBytes(1))
    IN /\ status = r.err
       /\ r.err = "ok" => (heap = r.heap /\ rootObject = r.root)

C16_Witness ==
  /\ pc = "decoded"
  /\ Len(wire) = 4
  /\ wire[1] = WObj(1, TID_Node)
  /\ wire[2].k = "unkObject"
  /\ wire[3].k = "val"
  /\ wire[4] = WObj(2, TID_Node)
  /\ heap[rootObject].f[kVal] = << 1 >>
  /\ Len(heap) = NumObjs + 2

(***************************************************************************)
(* The order of the calls decode makes on the RTTI types.                  *)
(***************************************************************************)
CallIdx == 1..Len(rttiCalls)

\* every onDeserializationEnded hook of the object has run before call k
EndedBefore(k, object) ==
  \A l \in 1..Len(Chain(heap[object].typeId)) :
    \E j \in 1..(k - 1) :
      rttiCalls[j] = Call("ended", object, Chain(heap[object].typeId)[l], 0, FALSE)

\* at call k the object is between its started and its ended hooks
OpenAt(k, object) ==
  \E j \in 1..(k - 1) :
    /\ rttiCalls[j].object = object
    /\ rttiCalls[j].op = "started"
    /\ \A m \in (j + 1)..(k - 1) :
         rttiCalls[m].object = object => rttiCalls[m].op = "setValue"

\* call k puts an object into a ReflectablePtr field that is not a weak one
StrongAssign(k) ==
  /\ rttiCalls[k].op = "setValue"
  /\ rttiCalls[k].arg # 0
  /\ ~rttiCalls[k].weak

\* C17: in an acyclic graph an object is put into a ReflectablePtr field
\* that is not flagged WeakRef only after all its fields are decoded and its
\* onDeserializationEnded hooks have run, and before the hooks of the object
\* that holds the field run.
C17_DecodeOrdering ==
  (pc \in {"phase2", "decoded"} /\ Acyclic(heap, Root)) =>
    \A k \in CallIdx :
      StrongAssign(k) =>
        /\ EndedBefore(k, rttiCalls[k].arg)
        /\ \A j \in k..Len(rttiCalls) : rttiCalls[j].object # rttiCalls[k].arg
        /\ OpenAt(k, rttiCalls[k].object)

C17_Witness ==
  /\ pc = "decoded"
  /\ Acyclic(heap, Root)
  /\ \E k \in CallIdx :
       /\ StrongAssign(k)
       /\ rttiCalls[k].object = rootObject
       /\ EndedBefore(k, rttiCalls[k].arg)
  /\ \E k \in CallIdx :
       /\ rttiCalls[k].op = "setValue" /\ rttiCalls[k].weak
       /\ rttiCalls[k].arg # 0
       /\ ~EndedBefore(k, rttiCalls[k].arg)

(***************************************************************************)
(* The type registry while the static initialisers run: every              *)
(* InitRTTIOnStart constructor hands the descriptor of its type to         *)
(* IReflectable::_registerRTTIType.                                        *)
(***************************************************************************)
\* the descriptors the initialisers may hand in: one id may be claimed by
\* classes of different names
Descriptors ==
  { RTTIType(id, name) : id \in AllRTTITypes \cup {kID_Abstract},
                         name \in 1..NumNames }

\* IReflectable::_isTypeIdDuplicate
_isTypeIdDuplicate(types, typeId) ==
  IF typeId = kID_Abstract THEN FALSE ELSE typeId \in DOMAIN types

\* IReflectable::_registerRTTIType: the registry and whether GE_EXCEPT
\* was raised
_registerRTTIType(types, rttiType) ==
  IF _isTypeIdDuplicate(types, rttiType.id)
  THEN [types |-> types, err |-> "exception"]
  ELSE [types |-> [id \in DOMAIN types \cup {rttiType.id} |->
                     IF id = rttiType.id THEN rttiType ELSE types[id]],
        err |-> "ok"]

StartupInit ==
  /\ pc = "startup"
  /\ allRTTITypes = << >>
  /\ registrations = << >>
  /\ m_size = 0
  /\ m_node = << >>
  /\ m_ptr = << >>
  /\ heapHistory = NoCalls
  /\ m_data = << >>
  /\ m_maxBits = 0
  /\ m_numBits = 0
  /\ bitHistory = NoBitCalls
  /\ metaData = NoMetaData
  /\ heap = << >>
  /\ edits = 0
  /\ shallow = FALSE
  /\ stream = << >>
  /\ m_objectsToEncode = << >>
  /\ m_objectAddrToId = << >>
  /\ m_lastUsedObjectId = 1
  /\ output = MemoryBuffer
  /\ wire = << >>
  /\ serializedObjects = {}
  /\ encodedIds = << >>
  /\ m_decodeObjectMap = << >>
  /\ dataPos = 0
  /\ rootObject = 0
  /\ status = "ok"
  /\ warnings = 0
  /\ callDepth = 0
  /\ rttiCalls = << >>
  /\ clonedObj = 0
  /\ numNodes = 0
  /\ orgObj = NullInst
  /\ newObj = NullInst
  /\ diff = NullInst
  /\ commands = << >>
  /\ cmdIdx = 0
  /\ destObject = 0
  /\ rttiInstance = << 0, 0 >>
  /\ objectStack = << >>
  /\ rttiInstances = << >>

\* the constructor of the next InitRTTIOnStart object runs
Register ==
  /\ pc = "startup"
  /\ Len(registrations) < MaxRegistrations
  /\ \E rttiType \in Descriptors :
       \E r \in {_registerRTTIType(allRTTITypes, rttiType)} :
         /\ registrations' = Append(registrations, rttiType)
         /\ allRTTITypes' = r.types
         /\ status' = r.err
         /\ pc' = IF r.err = "ok" THEN "startup" ELSE "failed"
  /\ UNCHANGED << metaData, m_data, m_maxBits, m_numBits, bitHistory, m_size, m_node, m_ptr, heapHistory, heap, edits, shallow,
                  stream, m_objectsToEncode,
                  m_objectAddrToId, m_lastUsedObjectId, output, wire,
                  serializedObjects, encodedIds, m_decodeObjectMap, dataPos,
                  rootObject, warnings, callDepth, rttiCalls, clonedObj,
                  diffVars >>

RegistrySpec == StartupInit /\ [][Register]_vars

\* the first registration that names the id
FirstRegistration(id) ==
  CHOOSE j \in 1..Len(registrations) :
    /\ registrations[j].id = id
    /\ \A m \in 1..(j - 1) : registrations[m].id # id

\* C18: the registry holds, for every id, the descriptor that was
\* registered first, and a registration of an id that is already
\* registered is the one that ended the program with an exception.
C18_RegistryUnique ==
  \A k \in 1..Len(registrations) :
    LET id == registrations[k].id
    IN /\ id \in DOMAIN allRTTITypes
       /\ allRTTITypes[id] = registrations[FirstRegistration(id)]
       /\ FirstRegistration(id) # k =>
            /\ k = Len(registrations)
            /\ pc = "failed"
            /\ status = "exception"

\* C19: SerializedObject::decode of the tree of a deep
\* SerializedObject::create gives every group of ReflectablePtr slots that
\* held one object one and the same new instance.
C19_TreeAliasing ==
  (pc = "treeDecoded" /\ ~shallow) =>
    /\ rootObject # 0
    /\ \A p, q \in Decoded : p[1] = q[1] => p[2] = q[2]

(***************************************************************************)
(* A MinHeap and its caller.                                               *)
(***************************************************************************)
HeapKeys == 1..MaxKey

HeapValues == 0..MaxValue

TheHeap == [m_size |-> m_size, m_node |-> m_node, m_ptr |-> m_ptr]

SetHeap(h) ==
  /\ m_size' = h.m_size
  /\ m_node' = h.m_node
  /\ m_ptr' = h.m_ptr

\* the sequence without the first entry equal to e
RECURSIVE Without(_, _)
Without(q, e) ==
  IF q = << >> THEN << >>
  ELSE IF Head(q) = e THEN Tail(q) ELSE << Head(q) >> \o Without(Tail(q), e)

HeapIdle ==
  UNCHANGED << metaData, m_data, m_maxBits, m_numBits, bitHistory, allRTTITypes, registrations, heap, edits, pc, shallow, stream,
               m_objectsToEncode, m_objectAddrToId, m_lastUsedObjectId,
               output, wire, serializedObjects, encodedIds,
               m_decodeObjectMap, dataPos, rootObject, status, warnings,
               callDepth, rttiCalls, clonedObj, diffVars >>

HeapResize ==
  /\ \E elements \in 0..MaxElements :
       /\ SetHeap(resize(elements))
  /\ heapHistory' = [NoCalls EXCEPT !.op = "resize"]
  /\ HeapIdle

HeapInsert ==
  /\ heapHistory.op # "none"
  /\ heapHistory.inserts < MaxInserts
  /\ \E key \in HeapKeys, value \in HeapValues :
       \E r \in {insert(TheHeap, key, value)} :
          /\ SetHeap(r.h)
          /\ heapHistory' =
               IF r.ret = 0
               THEN [heapHistory EXCEPT !.op = "full", !.key = key,
                                        !.value = value, !.before = heapHistory.stored]
               ELSE [heapHistory EXCEPT
                       !.inserts = @ + 1,
                       !.stored = Append(@, << key, value >>),
                       !.op = "insert", !.key = key, !.value = value,
                       !.before = heapHistory.stored]
  /\ HeapIdle

HeapErase ==
  /\ heapHistory.op # "none"
  /\ m_size > 0
  /\ \E r \in {erase(TheHeap)} :
        /\ SetHeap(r.h)
        /\ heapHistory' =
             [heapHistory EXCEPT
                !.erases = @ + 1,
                !.stored = Without(@, << r.key, r.value >>),
                !.op = "erase", !.key = r.key, !.value = r.value,
                !.before = heapHistory.stored]
  /\ HeapIdle

HeapNext == HeapResize \/ HeapInsert \/ HeapErase

HeapSpec == Init /\ [][HeapNext]_vars

\* how often the entry occurs in the sequence
RECURSIVE Count(_, _)
Count(q, e) ==
  IF q = << >> THEN 0
  ELSE (IF Head(q) = e THEN 1 ELSE 0) + Count(Tail(q), e)

\* the entries the heap holds at its first m_size positions
Held ==
  [p \in 1..m_size |-> << m_node[m_ptr[p]].key, m_node[m_ptr[p]].value >>]

\* C20: after resize(n) and inserts and erases that never exceed n entries,
\* size() is the number of inserts minus the number of erases, the heap
\* holds the entries put in and not taken out, minimum() and erase() report
\* one of them whose value no other entry undercuts, and the index of every
\* node is its position in m_ptr.
C20_MinHeapOrder ==
  heapHistory.op # "none" =>
    /\ m_size = heapHistory.inserts - heapHistory.erases
    /\ m_size = Len(heapHistory.stored)
    /\ \A e \in HeapKeys \X HeapValues : Count(Held, e) = Count(heapHistory.stored, e)
    /\ m_size > 0 =>
         /\ Count(heapHistory.stored,
                  << minimum(TheHeap).key, minimum(TheHeap).value >>) > 0
         /\ \A i \in 1..Len(heapHistory.stored) :
              minimum(TheHeap).value <= heapHistory.stored[i][2]
    /\ heapHistory.op = "erase" =>
         /\ Count(heapHistory.before, << heapHistory.key, heapHistory.value >>) > 0
         /\ \A i \in 1..Len(heapHistory.before) :
              heapHistory.value <= heapHistory.before[i][2]
    /\ \A p \in 1..Len(m_ptr) : m_node[m_ptr[p]].index = p - 1
    /\ valid(TheHeap)

\* four entries were stored, the smallest put in last; erase has reported
\* it and then the next one, and two larger entries are left
C20_Witness ==
  /\ heapHistory.op = "erase"
  /\ heapHistory.erases = 2
  /\ heapHistory.inserts = 4
  /\ heapHistory.value = 1
  /\ Len(heapHistory.stored) = 2
  /\ heapHistory.stored[1][2] = 2
  /\ heapHistory.stored[2][2] = 2
  /\ m_size = 2

(***************************************************************************)
(* A Bitfield and the calls its owner makes on it.                         *)
(***************************************************************************)
\* the sizes the field is created with and the indexes its owner uses: the
\* first and last bits of the dwords and their neighbours
CreateCounts == {1, 32, 33, 64, 65}
BitIndexes == {0, 1, 31, 32, 33, 63, 64}

TheBitfield == [m_data |-> m_data, m_maxBits |-> m_maxBits, m_numBits |-> m_numBits]

SetBitfield(bf) ==
  /\ m_data' = bf.m_data
  /\ m_maxBits' = bf.m_maxBits
  /\ m_numBits' = bf.m_numBits

\* the bits the field holds, bit j at position j + 1
Bits == [j \in 1..m_numBits |->
           ((j - 1) % BITS_PER_DWORD) \in m_data[(j - 1) \div BITS_PER_DWORD + 1]]

BitIdle ==
  UNCHANGED << metaData, m_size, m_node, m_ptr, heapHistory, allRTTITypes, registrations,
               heap, edits, pc, shallow, stream,
               m_objectsToEncode, m_objectAddrToId, m_lastUsedObjectId,
               output, wire, serializedObjects, encodedIds,
               m_decodeObjectMap, dataPos, rootObject, status, warnings,
               callDepth, rttiCalls, clonedObj, diffVars >>

BitCreate ==
  /\ bitHistory.op = "none"
  /\ \E value \in BOOLEAN, count \in CreateCounts, garbage \in Uninitialized :
       SetBitfield(Bitfield(value, count, garbage))
  /\ bitHistory' = [NoBitCalls EXCEPT !.op = "create"]
  /\ BitIdle

BitAssign ==
  /\ bitHistory.op # "none"
  /\ bitHistory.ops < MaxBitOps
  /\ \E idx \in BitIndexes, value \in BOOLEAN :
       /\ idx < m_numBits
       /\ SetBitfield(assignBit(TheBitfield, idx, value))
       /\ bitHistory' = [bitHistory EXCEPT !.op = "assign", !.index = idx,
                                          !.before = Bits, !.ops = @ + 1]
  /\ BitIdle

BitAdd ==
  /\ bitHistory.op # "none"
  /\ bitHistory.ops < MaxBitOps
  /\ \E value \in BOOLEAN,
        garbage \in IF m_numBits >= m_maxBits THEN Uninitialized ELSE {{}} :
       \E r \in {add(TheBitfield, value, garbage)} :
          /\ SetBitfield(r.bf)
          /\ bitHistory' = [bitHistory EXCEPT !.op = "add", !.index = r.ret,
                                             !.before = Bits, !.ops = @ + 1]
  /\ BitIdle

BitRemove ==
  /\ bitHistory.op # "none"
  /\ bitHistory.ops < MaxBitOps
  /\ \E index \in BitIndexes :
       /\ index < m_numBits
       /\ SetBitfield(remove(TheBitfield, index))
       /\ bitHistory' = [bitHistory EXCEPT !.op = "remove", !.index = index,
                                          !.before = Bits, !.ops = @ + 1]
  /\ BitIdle

BitNext == BitCreate \/ BitAssign \/ BitAdd \/ BitRemove

BitSpec == Init /\ [][BitNext]_vars

\* the smallest index that holds the value, MAX_UINT32 when there is none
FirstBit(value) ==
  IF \E j \in 1..m_numBits : Bits[j] = value
  THEN (CHOOSE j \in 1..m_numBits :
          /\ Bits[j] = value
          /\ \A k \in 1..(j - 1) : Bits[k] # value) - 1
  ELSE MAX_UINT32

\* C21: remove(i) on n bits leaves n - 1 bits, bit j the old bit j below i
\* and the old bit j + 1 from i on, across the dwords of the buffer; and
\* find(v) returns the smallest index that holds v, MAX_UINT32 if none does.
C21_BitfieldRemove ==
  /\ bitHistory.op = "remove" =>
       LET old == bitHistory.before
           i == bitHistory.index
       IN /\ m_numBits = Len(old) - 1
          /\ \A j \in 0..(Len(old) - 2) :
               Bits[j + 1] = IF j < i THEN old[j + 1] ELSE old[j + 2]
  /\ bitHistory.op # "none" =>
       \A value \in BOOLEAN : find(TheBitfield, value) = FirstBit(value)

\* bit 1 was removed from a field of 65 bits whose bits 32 and 64 differed
\* from their neighbours: both moved into the dword below
C21_Witness ==
  /\ bitHistory.op = "remove"
  /\ bitHistory.index = 1
  /\ Len(bitHistory.before) = 65
  /\ bitHistory.before[33] # bitHistory.before[34]
  /\ bitHistory.before[65] # bitHistory.before[64]
  /\ m_numBits = 64
  /\ find(TheBitfield, bitHistory.before[33]) = 31

(***************************************************************************)
(* The command list of IDiff::applyDiff.                                   *)
(***************************************************************************)
CmdIdx == 1..Len(commands)

\* a command that runs a field setter on destObject
IsAssignment(k) ==
  commands[k].type \notin {kObjectStart, kSubObjectStart, kObjectEnd}

\* the kObjectStart commands before command k whose kObjectEnd has not come
\* by then
OpenObjects(k) ==
  Cardinality({ j \in 1..(k - 1) : commands[j].type = kObjectStart })
  - Cardinality({ j \in 1..(k - 1) : commands[j].type = kObjectEnd })

\* C22: every field assignment and array-size command of the list comes
\* after the kObjectStart of its object and before its kObjectEnd, so that
\* an object is open when the command runs.
C22_CommandBracketing ==
  \A k \in CmdIdx : IsAssignment(k) => OpenObjects(k) > 0

\* a command that puts the object it carries into a field or array slot
IsInstall(k) ==
  /\ commands[k].type \in {kReflectablePtr, kReflectable}
  /\ commands[k].object # 0

\* C23: the kObjectStart and kObjectEnd of a child the diff patches, and
\* with them the commands that patch it, come before the command that puts
\* the child into its parent's field or array slot.
C23_InstallOrdering ==
  \A k \in CmdIdx : IsInstall(k) =>
    \A j \in CmdIdx :
      (/\ commands[j].type \in {kObjectStart, kObjectEnd}
       /\ commands[j].object = commands[k].object) => j < k

(***************************************************************************)
(* What generateDiff puts into the diff of the root.                       *)
(***************************************************************************)
\* the fields of the root, of all levels of its hierarchy
RootKeys == DOMAIN heap[Root].f

\* the diff has an entry for the field
HasEntry(d, key) ==
  /\ d.kind = "object"
  /\ \E k \in 1..Len(d.subObjects) :
       /\ d.subObjects[k].typeId = key[1]
       /\ key[2] \in DOMAIN d.subObjects[k].entries

\* C24: an array field whose element count differs between the original
\* and the modified tree has an entry in the diff, and the entry carries
\* the modified count.
C24_ArrayLengthDiffed ==
  (pc = "diffed" /\ DiffOfNow) =>
    \A key \in RootKeys :
      LET o == DiffEntry(orgObj, key)
          n == DiffEntry(newObj, key)
      IN (/\ o.kind = "array"
          /\ n.kind = "array"
          /\ o.numElements # n.numElements)
           => /\ HasEntry(diff, key)
              /\ DiffEntry(diff, key).kind = "array"
              /\ DiffEntry(diff, key).numElements = n.numElements

\* C25: a field with a value in the original and none in the modified tree
\* has an entry that is empty or null; a field with a value only in the
\* modified tree has an entry that is a copy of it; and a field without an
\* entry has equal values in both trees.
C25_ClearedAndAdded ==
  (pc = "diffed" /\ DiffOfNow) =>
    \A key \in RootKeys :
      LET o == DiffEntry(orgObj, key)
          n == DiffEntry(newObj, key)
          d == DiffEntry(diff, key)
      IN /\ (o.kind # "null" /\ n.kind = "null")
              => /\ HasEntry(diff, key)
                 /\ \/ d.kind = "null"
                    \/ d.kind \in {"field", "block"} /\ d.size = 0
         /\ (o.kind = "null" /\ n.kind # "null")
              => /\ HasEntry(diff, key)
                 /\ Strip(d) = Strip(n)
         /\ ~HasEntry(diff, key) => Strip(o) = Strip(n)

(***************************************************************************)
(* Decoding a cycle of references that are not weak.                       *)
(***************************************************************************)
\* an object under the root reaches itself through fields that are not weak
StrongCycle ==
  \E o \in Reach(heap, Root) : o \in StrongDescFrom(heap, {o}, {})

\* how often the started hook of the level has run for the object
Started(object, rtti) ==
  Cardinality({ k \in CallIdx : rttiCalls[k] = Call("started", object, rtti, 0, FALSE) })

\* call k puts an object whose decode is in progress into a field that is
\* not weak
InProgressAssign(k) == StrongAssign(k) /\ OpenAt(k, rttiCalls[k].arg)

\* C26: in a stream with a cycle of references that are not weak, a
\* reference to an object whose decode is in progress starts no second
\* decode of it and the field receives the instance that exists; decode
\* goes on, and every record is decoded once: after each turn of phase 2 no
\* entry is in progress and the decoded ones have been started once.
C26_StrongCycleDecode ==
  (~shallow /\ StrongCycle) =>
    /\ pc # "failed"
    /\ pc \in {"phase2", "decoded"} =>
         \A k \in CallIdx :
           InProgressAssign(k) =>
             \A j \in k..Len(rttiCalls) :
               rttiCalls[j].op = "started" => rttiCalls[j].object # rttiCalls[k].arg
    /\ pc = "phase2" =>
         \A i \in DOMAIN m_decodeObjectMap :
           LET e == m_decodeObjectMap[i]
               levels == Chain(heap[e.object].typeId)
           IN /\ ~e.decodeInProgress
              /\ \A l \in 1..Len(levels) :
                   Started(e.object, levels[l]) = IF e.isDecoded THEN 1 ELSE 0
    /\ pc = "decoded" =>
         /\ status = "ok"
         /\ rootObject # 0
         /\ GraphEqual(heap, Root, rootObject)

\* the root and object 2 reference each other through ref, and the decode
\* that has returned met the root while the root was being decoded
C26_Witness ==
  /\ pc = "decoded"
  /\ ~shallow
  /\ IsNode(Root)
  /\ heap[Root].f[kRef] = 2
  /\ heap[2].f[kRef] = Root
  /\ warnings > 0
  /\ \E k \in CallIdx : InProgressAssign(k) /\ rttiCalls[k].arg = rootObject
  /\ heap[heap[rootObject].f[kRef]].f[kRef] = rootObject

(***************************************************************************)
(* The metadata words on their own: a caller encodes a field word or an    *)
(* object word from arguments of its choice and decodes the word back.     *)
(***************************************************************************)
\* ids, sizes and object ids at the ends of the bytes they are packed in
FieldIds == {0, 1, 255, 256, 32767, 32768, 65535}
FieldSizes == {0, 1, 127, 128, 255}
FieldKinds == {kPlain, kDataBlock, kReflectable, kReflectablePtr}
ObjectIds == {0, 1, 63, 64, 16383, 16384, 4194303, 4194304,
              MaxStoredObjectId, MaxStoredObjectId + 1, 2147483647}
ObjectTypeIds == {0, TID_Node, 16777215}

MetaIdle ==
  UNCHANGED << m_data, m_maxBits, m_numBits, bitHistory, m_size, m_node,
               m_ptr, heapHistory, allRTTITypes, registrations,
               heap, edits, pc, shallow, stream,
               m_objectsToEncode, m_objectAddrToId, m_lastUsedObjectId,
               output, wire, serializedObjects, encodedIds,
               m_decodeObjectMap, dataPos, rootObject, status, warnings,
               callDepth, rttiCalls, clonedObj, diffVars >>

\* no word is waiting to be decoded
MetaReady == metaData.op \notin {"field", "object"}

MetaEncodeField ==
  /\ MetaReady
  /\ \E id \in FieldIds, size \in FieldSizes, array \in BOOLEAN,
        type \in FieldKinds, hasDynamicSize \in BOOLEAN, terminator \in BOOLEAN :
       metaData' = [op |-> "field",
                    args |-> << id, size, array, type, hasDynamicSize, terminator >>,
                    word |-> encodeFieldMetaData(id, size, array, type,
                                                 hasDynamicSize, terminator),
                    out |-> << >>]
  /\ MetaIdle

MetaDecodeField ==
  /\ metaData.op = "field"
  /\ metaData' =
       IF isObjectMetaData(metaData.word)
       THEN [metaData EXCEPT !.op = "InternalErrorException"]
       ELSE LET m == decodeFieldMetaData(metaData.word)
            IN [metaData EXCEPT
                  !.op = "fieldDecoded",
                  !.out = << m.id, m.size, m.array, m.type,
                             m.hasDynamicSize, m.terminator >>]
  /\ MetaIdle

MetaEncodeObject ==
  /\ MetaReady
  /\ \E objId \in ObjectIds, objTypeId \in ObjectTypeIds, isBaseClass \in BOOLEAN :
       metaData' =
         IF objIdTooLarge(objId)
         THEN [op |-> "InvalidParametersException",
               args |-> << objId, objTypeId, isBaseClass >>,
               word |-> << >>, out |-> << >>]
         ELSE [op |-> "object",
               args |-> << objId, objTypeId, isBaseClass >>,
               word |-> encodeObjectMetaData(objId, objTypeId, isBaseClass),
               out |-> << >>]
  /\ MetaIdle

MetaDecodeObject ==
  /\ metaData.op = "object"
  /\ metaData' =
       IF ~isObjectMetaData(metaData.word)
       THEN [metaData EXCEPT !.op = "InternalErrorException"]
       ELSE LET m == decodeObjectMetaData(Word(metaData.word, 0),
                                          RdU32(metaData.word, 4))
            IN [metaData EXCEPT
                  !.op = "objectDecoded",
                  !.out = << m.objId, m.objTypeId, m.isBaseClass >>]
  /\ MetaIdle

MetaNext ==
  MetaEncodeField \/ MetaDecodeField \/ MetaEncodeObject \/ MetaDecodeObject

MetaSpec == Init /\ [][MetaNext]_vars

\* C27: decoding an encoded field word gives back the id, size, array flag,
\* kind, dynamic-size flag and terminator flag it was encoded from, decoding
\* an encoded object word gives back the object id, type id and base-class
\* flag; an object id above 2^30 - 1 is rejected and no other is; a field
\* word has bit 0 clear and an object word has bit 0 set, so neither decode
\* throws on a word of its own kind.
C27_MetaDataCodec ==
  /\ metaData.op \in {"field", "fieldDecoded"} =>
       ~isObjectMetaData(metaData.word)
  /\ metaData.op \in {"object", "objectDecoded"} =>
       isObjectMetaData(metaData.word)
  /\ metaData.op \in {"fieldDecoded", "objectDecoded"} =>
       metaData.out = metaData.args
  /\ metaData.op # "InternalErrorException"
  /\ metaData.op = "InvalidParametersException" =>
       metaData.args[1] > MaxStoredObjectId
  /\ metaData.op \in {"object", "objectDecoded"} =>
       metaData.args[1] <= MaxStoredObjectId

\* a field word with the largest id and size, every flag set and the kind
\* of the highest bit has been encoded and decoded
C27_Witness ==
  /\ metaData.op = "fieldDecoded"
  /\ metaData.args = << 65535, 255, TRUE, kReflectablePtr, TRUE, TRUE >>
  /\ metaData.word = << 114, 255, 255, 255 >>
  /\ metaData.out = metaData.args

(***************************************************************************)
(* What the flush callback has been handed when encode() returns.          *)
(***************************************************************************)
RECURSIVE Concat(_)
\* the regions of a sequence, one after the other
Concat(regions) ==
  IF regions = << >> THEN << >>
  ELSE Head(regions) \o Concat(Tail(regions))

\* C28: when encode has returned, the regions handed to the flush callback,
\* one after the other, are the bytes of the encoding, each once and in
\* stream order, the last region included, and the bytesWritten it reports
\* is the sum of the sizes of the regions.
C28_FlushAccounting ==
  pc = "encoded" =>
    /\ Concat(output.flushed) = encode(heap, Root, heap[Root], shallow)
    /\ output.bytesWritten = Len(Concat(output.flushed))

\* the same for the callbacks that never refuse and never hand back a
\* buffer smaller than the write that waits for it
C28_FlushAccountingNoRefusal ==
  (pc = "encoded" /\ output.failedAt < 0) =>
    /\ Concat(output.flushed) = encode(heap, Root, heap[Root], shallow)
    /\ output.bytesWritten = Len(Concat(output.flushed))

\* an encode that has returned after three or more flushes, the second
\* into a buffer smaller than the first
C28_Witness ==
  /\ pc = "encoded"
  /\ output.failedAt < 0
  /\ Len(output.flushed) >= 3
  /\ Len(output.flushed[2]) <= SmallBuffer
  /\ Len(output.flushed[Len(output.flushed)]) < output.bufferLength

(***************************************************************************)
(* Termination of SerializedObject::create.                                *)
(***************************************************************************)
\* an object under the root reaches itself through ReflectablePtr fields,
\* weak or not
PtrCycle == ~Acyclic(heap, Root)

\* C29: a deep SerializedObject::create returns a finite tree for every
\* graph, also when an object is reachable from itself: its recursion
\* never comes back to an object whose encodeEntry call is still running.
C29_TreeEncodeTerminates ==
  ~(pc = "failed" /\ status = "overflow")

\* the same for the graphs in which no object reaches itself
C29_TreeEncodeTerminatesAcyclic ==
  ~PtrCycle => ~(pc = "failed" /\ status = "overflow")

(***************************************************************************)
(* The hooks of encode().                                                  *)
(***************************************************************************)
HookIdx == 1..Len(output.hooks)

\* how many of the calls from..Len(hooks) are the hook op of the object and
\* level of call k
HooksFrom(op, k, from) ==
  Cardinality({ j \in from..Len(output.hooks) :
                  output.hooks[j] = << op, output.hooks[k][2], output.hooks[k][3] >> })

\* C30: when encode has returned, every onSerializationStarted call is
\* followed by one onSerializationEnded call of its own for the same object
\* and level, and every schema instance encodeEntry created has been
\* destructed.
C30_EncodeHookPairing ==
  pc = "encoded" =>
    /\ \A k \in HookIdx :
         output.hooks[k][1] = "started" =>
           HooksFrom("ended", k, k + 1) = HooksFrom("started", k, k)
    /\ output.instances = 0

\* the first part alone
C30_StartedThenEnded ==
  pc = "encoded" =>
    \A k \in HookIdx :
      output.hooks[k][1] = "started" =>
        HooksFrom("ended", k, k + 1) = HooksFrom("started", k, k)

\* what encodeEntry does: an encodeEntry call that returns its buffer runs
\* no ended hook and destructs no instance, so after an encode in which no
\* write failed no ended hook has run
C30_NoCleanupOnReturn ==
  (pc = "encoded" /\ output.failedAt < 0) =>
    /\ output.hooks # << >>
    /\ \A k \in HookIdx : output.hooks[k][1] = "started"
    /\ output.instances = Len(output.hooks)

=============================================================================
